---- MODULE Spec2Model ----
(***************************************************************************)
(* FitTrack bot: the text-to-record pipeline of fit_track_bot/parser.py    *)
(* and the record classes of fit_track_bot/models.py.                      *)
(*                                                                         *)
(* Text is modelled character by character: a line and a token are TLA+    *)
(* strings, read with Len and SubSeq.  Cyrillic words of the source are    *)
(* written in Latin transliteration ("muzhskoy" for 'мужской', "ves" for   *)
(* 'вес'); the two aliases whose plain transliteration would be the        *)
(* English canonical key are written "gjender" ('гендер') and "protjein"   *)
(* ('протеин') so that they stay different spellings.                      *)
(***************************************************************************)
EXTENDS Integers, Sequences, FiniteSets, TLC

VARIABLES
    today,      \* the date datetime.now().date() returns (models.py:183)
    pc,         \* "idle": no call in progress; "done": a call has returned
    last,       \* the call that returned last: operation, argument, outcome
    memo,       \* an earlier call of create_object_from_string, kept to compare
    objects,    \* the records alive on the heap, by address 1..Len(objects)
    user_data   \* FitTrackBot.user_data: user id -> {'profile': UserProfile}

vars == <<today, pc, last, memo, objects, user_data>>

----------------------------------------------------------------------------
(* Characters and strings *)

CharAt(s, i) == SubSeq(s, i, i)

Digits == {"0", "1", "2", "3", "4", "5", "6", "7", "8", "9"}

IsDigit(c) == c \in Digits

DigitVal(c) ==
    CASE c = "0" -> 0 [] c = "1" -> 1 [] c = "2" -> 2 [] c = "3" -> 3
      [] c = "4" -> 4 [] c = "5" -> 5 [] c = "6" -> 6 [] c = "7" -> 7
      [] c = "8" -> 8 [] c = "9" -> 9

UpperCase == <<"A", "B", "C", "D", "E", "F", "G", "H", "I", "J", "K", "L", "M",
               "N", "O", "P", "Q", "R", "S", "T", "U", "V", "W", "X", "Y", "Z">>

LowerCase == <<"a", "b", "c", "d", "e", "f", "g", "h", "i", "j", "k", "l", "m",
               "n", "o", "p", "q", "r", "s", "t", "u", "v", "w", "x", "y", "z">>

\* str.lower() on one character
LowerChar(c) ==
    IF \E k \in 1..26 : UpperCase[k] = c
    THEN LowerCase[CHOOSE k \in 1..26 : UpperCase[k] = c]
    ELSE c

\* str.lower(), from character i on
RECURSIVE LowerFrom(_, _)
LowerFrom(s, i) ==
    IF i > Len(s) THEN "" ELSE LowerChar(CharAt(s, i)) \o LowerFrom(s, i + 1)

Lower(s) == LowerFrom(s, 1)

\* str.replace(' ', '_'), from character i on
RECURSIVE ReplaceSpacesFrom(_, _)
ReplaceSpacesFrom(s, i) ==
    IF i > Len(s) THEN ""
    ELSE (IF CharAt(s, i) = " " THEN "_" ELSE CharAt(s, i)) \o ReplaceSpacesFrom(s, i + 1)

ReplaceSpaces(s) == ReplaceSpacesFrom(s, 1)

\* the characters str.strip() removes, among those of the model's alphabet
Whitespace == {" ", "\t"}

AllDigits(s, from, to) == \A i \in from..to : IsDigit(CharAt(s, i))

\* int() of a string of decimal digits
RECURSIVE DigitsToInt(_, _, _)
DigitsToInt(s, i, acc) ==
    IF i > Len(s) THEN acc ELSE DigitsToInt(s, i + 1, 10 * acc + DigitVal(CharAt(s, i)))

RECURSIVE Pow10(_)
Pow10(n) == IF n = 0 THEN 1 ELSE 10 * Pow10(n - 1)

\* the index of the first c in s, 0 when there is none
IndexOf(s, c) ==
    IF \E i \in 1..Len(s) : CharAt(s, i) = c
    THEN CHOOSE i \in 1..Len(s) : CharAt(s, i) = c /\ \A j \in 1..(i - 1) : CharAt(s, j) # c
    ELSE 0

----------------------------------------------------------------------------
(* Outcomes of a call *)

ParseError(msg) == [kind |-> "error", exc |-> "ParseError", msg |-> msg]

ValidationError(msg) == [kind |-> "error", exc |-> "ValidationError", msg |-> msg]

\* an exception that is neither ParseError nor ValidationError
PyError(exc) == [kind |-> "error", exc |-> exc, msg |-> exc]

\* a raised exception, as opposed to a returned value
IsError(r) == "exc" \in DOMAIN r

IsParseError(r) == IsError(r) /\ r.exc = "ParseError"

IsValidationError(r) == IsError(r) /\ r.exc = "ValidationError"

\* what a check that raises nothing gives
NoError == [kind |-> "ok"]

\* The base class of each exception class: FitTrackError(Exception),
\* ValidationError(FitTrackError), ParseError(FitTrackError), and the built-in
\* ones.
BaseClass ==
    ( "ParseError" :> "FitTrackError" ) @@ ( "ValidationError" :> "FitTrackError" ) @@
    ( "FitTrackError" :> "Exception" ) @@ ( "ValueError" :> "Exception" ) @@
    ( "TypeError" :> "Exception" ) @@ ( "AttributeError" :> "Exception" ) @@
    ( "KeyError" :> "LookupError" ) @@ ( "LookupError" :> "Exception" ) @@
    ( "ZeroDivisionError" :> "ArithmeticError" ) @@
    ( "ArithmeticError" :> "Exception" ) @@ ( "Exception" :> "BaseException" )

\* cls and the classes it derives from
RECURSIVE ClassAndBases(_)
ClassAndBases(cls) ==
    IF cls \in DOMAIN BaseClass THEN {cls} \cup ClassAndBases(BaseClass[cls])
    ELSE {cls}

\* "except handler:" catches the exception r
Catches(handler, r) == IsError(r) /\ handler \in ClassAndBases(r.exc)

----------------------------------------------------------------------------
(* Values: the Python objects parse_value returns *)

StrVal(s)      == [t |-> "str", s |-> s]
IntVal(i)      == [t |-> "int", i |-> i]
DateVal(y, m, d) == [t |-> "date", y |-> y, mo |-> m, d |-> d]
TimeVal(h, mi) == [t |-> "time", h |-> h, mi |-> mi]

\* A float is kept as the decimal it was written as, mant / 10^exp, with the
\* trailing zeros of the fraction dropped: 75.0 and 75.00 are one value.
RECURSIVE NormFloat(_, _)
NormFloat(mant, exp) ==
    IF exp > 0 /\ mant % 10 = 0 THEN NormFloat(mant \div 10, exp - 1)
    ELSE [t |-> "float", mant |-> mant, exp |-> exp]

FloatVal(mant, exp) == NormFloat(mant, exp)

IsNumber(v) == v.t \in {"int", "float"}

NumMant(v) == IF v.t = "int" THEN v.i ELSE v.mant
NumExp(v)  == IF v.t = "int" THEN 0 ELSE v.exp

\* lo <= v <= hi for a Python number v and integer bounds, as Python compares
InRange(v, lo, hi) ==
    /\ lo * Pow10(NumExp(v)) <= NumMant(v)
    /\ NumMant(v) <= hi * Pow10(NumExp(v))

----------------------------------------------------------------------------
(* ObjectParser: key translation *)

RUSSIAN_TO_ENGLISH_MAP ==
    ( "pol" :> "gender" ) @@ ( "gjender" :> "gender" ) @@
    ( "vozrast" :> "age" ) @@ ( "rost" :> "height" ) @@
    ( "ves" :> "weight" ) @@ ( "tsel" :> "goal" ) @@
    ( "tip_aktivnosti" :> "activity_type" ) @@
    ( "aktivnost" :> "activity_type" ) @@
    ( "uroven_aktivnosti" :> "activity_type" ) @@
    ( "nazvanie" :> "name" ) @@ ( "imya" :> "name" ) @@
    ( "podhody" :> "sets" ) @@ ( "povtoreniya" :> "reps_per_set" ) @@
    ( "povtory" :> "reps_per_set" ) @@ ( "povtoreniy" :> "reps_per_set" ) @@
    ( "massa" :> "weight" ) @@ ( "primechaniya" :> "notes" ) @@
    ( "data" :> "date" ) @@ ( "dlitelnost" :> "duration" ) @@
    ( "prodolzhitelnost" :> "duration" ) @@
    ( "uprazhneniya" :> "exercises" ) @@ ( "kommentarii" :> "notes" ) @@
    ( "tip_tseli" :> "goal_type" ) @@ ( "kalorii" :> "calories" ) @@
    ( "belok" :> "protein" ) @@ ( "protjein" :> "protein" ) @@
    ( "zhiry" :> "fat" ) @@ ( "uglevody" :> "carbs" ) @@
    ( "karbs" :> "carbs" )

\* dict.get(normalized_key, key): the default is the key as written
translate_key(key) ==
    LET normalized_key == ReplaceSpaces(Lower(key))
    IN  IF normalized_key \in DOMAIN RUSSIAN_TO_ENGLISH_MAP
        THEN RUSSIAN_TO_ENGLISH_MAP[normalized_key]
        ELSE key

----------------------------------------------------------------------------
(* ObjectParser: value inference *)

\* ^\d{4}\.\d{2}\.\d{2}$
DATE_PATTERN(s) ==
    /\ Len(s) = 10
    /\ AllDigits(s, 1, 4) /\ CharAt(s, 5) = "."
    /\ AllDigits(s, 6, 7) /\ CharAt(s, 8) = "."
    /\ AllDigits(s, 9, 10)

\* ^\d{2}:\d{2}$
TIME_PATTERN(s) ==
    /\ Len(s) = 5
    /\ AllDigits(s, 1, 2) /\ CharAt(s, 3) = ":" /\ AllDigits(s, 4, 5)

\* ^-?\d+$
INT_PATTERN(s) ==
    LET from == IF Len(s) > 0 /\ CharAt(s, 1) = "-" THEN 2 ELSE 1
    IN  Len(s) >= from /\ AllDigits(s, from, Len(s))

\* ^-?\d+\.\d+$
FLOAT_PATTERN(s) ==
    LET from == IF Len(s) > 0 /\ CharAt(s, 1) = "-" THEN 2 ELSE 1
        dot  == IndexOf(s, ".")
    IN  /\ dot > from /\ dot < Len(s)
        /\ AllDigits(s, from, dot - 1)
        /\ AllDigits(s, dot + 1, Len(s))

\* ^".*"$
QUOTED_STRING_PATTERN(s) ==
    Len(s) >= 2 /\ CharAt(s, 1) = "\"" /\ CharAt(s, Len(s)) = "\""

is_quoted_string(value_str) == QUOTED_STRING_PATTERN(value_str)

\* value_str[1:-1]
parse_quoted_string(value_str) == SubSeq(value_str, 2, Len(value_str) - 1)

IsLeapYear(y) == (y % 4 = 0 /\ y % 100 # 0) \/ y % 400 = 0

DaysInMonth(y, m) ==
    IF m = 2 THEN (IF IsLeapYear(y) THEN 29 ELSE 28)
    ELSE IF m \in {4, 6, 9, 11} THEN 30 ELSE 31

\* datetime.date(year, month, day) raises ValueError unless this holds
ValidDate(y, m, d) ==
    /\ y >= 1 /\ y <= 9999
    /\ m >= 1 /\ m <= 12
    /\ d >= 1 /\ d <= DaysInMonth(y, m)

\* parse_date letting a date that is no calendar date through as text
parse_date_passthrough(value_str) ==
    LET year  == DigitsToInt(SubSeq(value_str, 1, 4), 1, 0)
        month == DigitsToInt(SubSeq(value_str, 6, 7), 1, 0)
        day   == DigitsToInt(SubSeq(value_str, 9, 10), 1, 0)
    IN  IF ValidDate(year, month, day)
        THEN DateVal(year, month, day)
        ELSE StrVal(value_str)

parse_date(value_str) ==
    LET year  == DigitsToInt(SubSeq(value_str, 1, 4), 1, 0)
        month == DigitsToInt(SubSeq(value_str, 6, 7), 1, 0)
        day   == DigitsToInt(SubSeq(value_str, 9, 10), 1, 0)
    IN  IF ValidDate(year, month, day)
        THEN DateVal(year, month, day)
        ELSE ParseError("bad_date")

parse_time(value_str) ==
    LET hours   == DigitsToInt(SubSeq(value_str, 1, 2), 1, 0)
        minutes == DigitsToInt(SubSeq(value_str, 4, 5), 1, 0)
    IN  IF ~(0 <= hours /\ hours <= 23) \/ ~(0 <= minutes /\ minutes <= 59)
        THEN ParseError("bad_time")
        ELSE TimeVal(hours, minutes)

\* int(value_str) for a string that matches INT_PATTERN
ToInt(s) ==
    IF CharAt(s, 1) = "-"
    THEN IntVal(0 - DigitsToInt(SubSeq(s, 2, Len(s)), 1, 0))
    ELSE IntVal(DigitsToInt(s, 1, 0))

\* float(value_str) for a string that matches FLOAT_PATTERN
ToFloat(s) ==
    LET neg  == CharAt(s, 1) = "-"
        body == IF neg THEN SubSeq(s, 2, Len(s)) ELSE s
        dot  == IndexOf(body, ".")
        whole == SubSeq(body, 1, dot - 1)
        frac  == SubSeq(body, dot + 1, Len(body))
        mant  == DigitsToInt(whole \o frac, 1, 0)
    IN  FloatVal(IF neg THEN 0 - mant ELSE mant, Len(frac))

\* The first pattern that matches decides.
parse_value(value_str) ==
    IF DATE_PATTERN(value_str) THEN parse_date(value_str)
    ELSE IF TIME_PATTERN(value_str) THEN parse_time(value_str)
    ELSE IF is_quoted_string(value_str) THEN StrVal(parse_quoted_string(value_str))
    ELSE IF INT_PATTERN(value_str) THEN ToInt(value_str)
    ELSE IF FLOAT_PATTERN(value_str) THEN ToFloat(value_str)
    ELSE StrVal(value_str)

----------------------------------------------------------------------------
(* ObjectParser: the tokenizer *)

\* not object_str.strip()
IsBlank(s) == \A i \in 1..Len(s) : CharAt(s, i) \in Whitespace

\* The scan with the quote character switching the state without being added
\* to the token.
RECURSIVE ScanToken_dropquotes(_, _, _, _)
ScanToken_dropquotes(s, i, current_token, in_quotes) ==
    IF i > Len(s)
    THEN [i |-> i, current_token |-> current_token, in_quotes |-> in_quotes,
          appended |-> FALSE]
    ELSE LET char == CharAt(s, i)
         IN  IF char = "\""
             THEN ScanToken_dropquotes(s, i + 1, current_token, ~in_quotes)
             ELSE IF char = " " /\ ~in_quotes
             THEN IF current_token # ""
                  THEN [i |-> i + 1, current_token |-> current_token,
                        in_quotes |-> in_quotes, appended |-> TRUE]
                  ELSE ScanToken_dropquotes(s, i + 1, current_token, in_quotes)
             ELSE ScanToken_dropquotes(s, i + 1, current_token \o char, in_quotes)

\* The for loop of _tokenize_string from character i on, up to the character
\* that completes a token (a space outside quotes after a non-empty token) or
\* to the end of the line.  appended: the loop has appended current_token.
RECURSIVE ScanToken(_, _, _, _)
ScanToken(s, i, current_token, in_quotes) ==
    IF i > Len(s)
    THEN [i |-> i, current_token |-> current_token, in_quotes |-> in_quotes,
          appended |-> FALSE]
    ELSE LET char == CharAt(s, i)
         IN  IF char = "\""
             THEN ScanToken(s, i + 1, current_token \o char, ~in_quotes)
             ELSE IF char = " " /\ ~in_quotes
             THEN IF current_token # ""
                  THEN [i |-> i + 1, current_token |-> current_token,
                        in_quotes |-> in_quotes, appended |-> TRUE]
                  ELSE ScanToken(s, i + 1, current_token, in_quotes)
             ELSE ScanToken(s, i + 1, current_token \o char, in_quotes)

\* The whole loop, token by token: what tokens, current_token and in_quotes
\* hold when it ends.
RECURSIVE TokenizeScan(_, _, _)
TokenizeScan(s, i, tokens) ==
    LET step == ScanToken(s, i, "", FALSE)
    IN  IF step.appended
        THEN TokenizeScan(s, step.i, Append(tokens, step.current_token))
        ELSE [tokens |-> tokens, current_token |-> step.current_token,
              in_quotes |-> step.in_quotes]

\* _tokenize_string without the test of in_quotes after the loop
tokenize_string_unchecked(object_str) ==
    IF IsBlank(object_str) THEN ParseError("empty")
    ELSE LET end == TokenizeScan(object_str, 1, <<>>)
         IN  [kind |-> "tokens",
              tokens |-> IF end.current_token # ""
                         THEN Append(end.tokens, end.current_token)
                         ELSE end.tokens]

tokenize_string(object_str) ==
    IF IsBlank(object_str) THEN ParseError("empty")
    ELSE LET end == TokenizeScan(object_str, 1, <<>>)
         IN  IF end.in_quotes THEN ParseError("unclosed_quotes")
             ELSE [kind |-> "tokens",
                   tokens |-> IF end.current_token # ""
                              THEN Append(end.tokens, end.current_token)
                              ELSE end.tokens]

----------------------------------------------------------------------------
(* ObjectParser: schema validation and assembly *)

\* isinstance taking an int where a float is expected
IsInstance_int_as_float(value, prop_type) ==
    value.t = prop_type \/ (prop_type = "float" /\ value.t = "int")

\* isinstance(value, prop_type), the types named as type(...).__name__ names them
IsInstance(value, prop_type) == value.t = prop_type

\* validate_required_properties raising at the first required key that is
\* missing or mistyped instead of collecting them all
validate_first_only(object_type, properties, required) ==
    LET Wrong(p) == \/ p[1] \notin DOMAIN properties
                    \/ ~IsInstance(properties[p[1]], p[2])
        wrong == SelectSeq(required, Wrong)
    IN  IF wrong = <<>> THEN NoError
        ELSE IF wrong[1][1] \notin DOMAIN properties
        THEN [kind |-> "error", exc |-> "ParseError", msg |-> "schema",
              object_type |-> object_type,
              missing |-> << wrong[1][1] >>, type_errors |-> <<>>]
        ELSE [kind |-> "error", exc |-> "ParseError", msg |-> "schema",
              object_type |-> object_type, missing |-> <<>>,
              type_errors |-> << [name |-> wrong[1][1], expected |-> wrong[1][2],
                                  actual |-> properties[wrong[1][1]].t] >>]

\* The loop of validate_required_properties: required is the dict in its order.
validate_required_properties(object_type, properties, required) ==
    LET Missing(p)  == p[1] \notin DOMAIN properties
        Mistyped(p) == p[1] \in DOMAIN properties
                       /\ ~IsInstance(properties[p[1]], p[2])
        miss == SelectSeq(required, Missing)
        bad  == SelectSeq(required, Mistyped)
        missing_properties == [i \in 1..Len(miss) |-> miss[i][1]]
        type_errors == [i \in 1..Len(bad) |->
                           [name |-> bad[i][1], expected |-> bad[i][2],
                            actual |-> properties[bad[i][1]].t]]
    IN  IF missing_properties # <<>> \/ type_errors # <<>>
        THEN [kind |-> "error", exc |-> "ParseError", msg |-> "schema",
              object_type |-> object_type,
              missing |-> missing_properties, type_errors |-> type_errors]
        ELSE NoError

required_properties ==
    ( "UserProfile" :> << <<"gender", "str">>, <<"age", "int">>,
                          <<"height", "float">>, <<"weight", "float">>,
                          <<"goal", "str">>, <<"activity_type", "str">> >> ) @@
    ( "Exercise" :> << <<"name", "str">>, <<"sets", "int">>,
                       <<"reps_per_set", "int">>, <<"weight", "float">> >> ) @@
    ( "Workout" :> << <<"date", "date">>, <<"duration", "time">> >> ) @@
    ( "NutritionGoal" :> << <<"goal_type", "str">>, <<"calories", "float">>,
                            <<"protein", "float">>, <<"fat", "float">>,
                            <<"carbs", "float">> >> )

\* properties kept between calls (one dict shared by the calls instead of a
\* fresh one): the keys the call before has built its record from are still in it
StaleProperties ==
    IF last.op = "create_object_from_string" /\ last.out.kind = "record"
    THEN last.out.fields
    ELSE <<>>

\* properties = {} : a fresh dict for every call
InitialProperties == <<>>

\* PairsLoop with the duplicate test made on the key as written
\* (if tokens[i] in properties) instead of on the translated key.
RECURSIVE PairsLoop_rawkey(_, _, _)
PairsLoop_rawkey(tokens, i, properties) ==
    IF i > Len(tokens) THEN [kind |-> "properties", properties |-> properties]
    ELSE IF i + 1 > Len(tokens) THEN ParseError("unpaired")
    ELSE LET key == translate_key(tokens[i])
             value_str == tokens[i + 1]
         IN  IF tokens[i] \in DOMAIN properties THEN ParseError("duplicate")
             ELSE LET value == parse_value(value_str)
                  IN  IF IsError(value) THEN value
                      ELSE PairsLoop_rawkey(tokens, i + 2, (key :> value) @@ properties)

\* PairsLoop with the value of a pair inferred before its key is tested for a
\* duplicate.
RECURSIVE PairsLoop_valuefirst(_, _, _)
PairsLoop_valuefirst(tokens, i, properties) ==
    IF i > Len(tokens) THEN [kind |-> "properties", properties |-> properties]
    ELSE IF i + 1 > Len(tokens) THEN ParseError("unpaired")
    ELSE LET key == translate_key(tokens[i])
             value == parse_value(tokens[i + 1])
         IN  IF IsError(value) THEN value
             ELSE IF key \in DOMAIN properties THEN ParseError("duplicate")
             ELSE PairsLoop_valuefirst(tokens, i + 2, (key :> value) @@ properties)

\* The for loop of parse_object from the key at tokens[i] on (tokens[1] is the kind).
RECURSIVE PairsLoop(_, _, _)
PairsLoop(tokens, i, properties) ==
    IF i > Len(tokens) THEN [kind |-> "properties", properties |-> properties]
    ELSE IF i + 1 > Len(tokens) THEN ParseError("unpaired")
    ELSE LET key == translate_key(tokens[i])
             value_str == tokens[i + 1]
         IN  IF key \in DOMAIN properties THEN ParseError("duplicate")
             ELSE LET value == parse_value(value_str)
                  IN  IF IsError(value) THEN value
                      ELSE PairsLoop(tokens, i + 2, (key :> value) @@ properties)

\* check_token_count with the first check only: an even count goes on to the
\* loop over the pairs
check_token_count_minimum(tokens) ==
    IF Len(tokens) < 3 THEN ParseError("too_few_tokens") ELSE NoError

\* The two checks of the token count.
check_token_count(tokens) ==
    IF Len(tokens) < 3 THEN ParseError("too_few_tokens")
    ELSE IF Len(tokens) % 2 = 0 THEN ParseError("token_parity")
    ELSE NoError

\* parse_object without the schema step: the descriptor goes to the constructor
\* as it is
check_schema_none(object_type, properties) == NoError

\* check_schema rejecting a kind the table does not have
check_schema_strict(object_type, properties) ==
    IF object_type \in DOMAIN required_properties
    THEN validate_required_properties(object_type, properties,
                                      required_properties[object_type])
    ELSE ParseError("unknown_kind")

\* The schema check is made only for a kind the table has, compared as written.
check_schema(object_type, properties) ==
    IF object_type \in DOMAIN required_properties
    THEN validate_required_properties(object_type, properties,
                                      required_properties[object_type])
    ELSE NoError

\* parse_tokens without the parity check, the loop leaving a last key that has
\* no value out (range(1, len(tokens) - 1, 2))
parse_tokens_lenient(tokens) ==
    LET paired == IF Len(tokens) % 2 = 0 THEN SubSeq(tokens, 1, Len(tokens) - 1)
                  ELSE tokens
    IN  IF Len(tokens) < 3 THEN ParseError("too_few_tokens")
        ELSE LET loop == PairsLoop(paired, 2, InitialProperties)
             IN  IF IsError(loop) THEN loop
                 ELSE LET schema == check_schema(paired[1], loop.properties)
                      IN  IF IsError(schema) THEN schema
                          ELSE [kind |-> "descriptor", type |-> paired[1],
                                properties |-> loop.properties]

\* parse_object once the line is tokenized
parse_tokens(tokens) ==
    LET count == check_token_count(tokens)
    IN  IF IsError(count) THEN count
        ELSE LET loop == PairsLoop(tokens, 2, InitialProperties)
             IN  IF IsError(loop) THEN loop
                 ELSE LET schema == check_schema(tokens[1], loop.properties)
                      IN  IF IsError(schema) THEN schema
                          ELSE [kind |-> "descriptor", type |-> tokens[1],
                                properties |-> loop.properties]

parse_object(object_str) ==
    LET tk == tokenize_string(object_str)
    IN  IF IsError(tk) THEN tk ELSE parse_tokens(tk.tokens)

----------------------------------------------------------------------------
(* models.py: the record classes *)

ListVal(items) == [t |-> "list", items |-> items]

\* no default: the field is required by __init__
Required == [t |-> "required"]

\* The dataclass fields in declaration order, each with its default.
\* UserProfile's first field is declared as 'пол', written "pol".
Fields ==
    ( "UserProfile" :> << <<"pol", Required>>, <<"age", Required>>,
                          <<"height", Required>>, <<"weight", Required>>,
                          <<"goal", Required>>, <<"activity_type", Required>> >> ) @@
    ( "Exercise" :> << <<"name", Required>>, <<"sets", Required>>,
                       <<"reps_per_set", Required>>, <<"weight", Required>>,
                       <<"notes", StrVal("")>> >> ) @@
    ( "Workout" :> << <<"date", Required>>, <<"duration", Required>>,
                      <<"exercises", ListVal(<<>>)>>, <<"notes", StrVal("")>> >> ) @@
    ( "NutritionGoal" :> << <<"goal_type", Required>>, <<"calories", Required>>,
                            <<"protein", Required>>, <<"fat", Required>>,
                            <<"carbs", Required>> >> )

FieldNames(cls) == {Fields[cls][i][1] : i \in 1..Len(Fields[cls])}

RequiredNames(cls) ==
    {Fields[cls][i][1] : i \in {j \in 1..Len(Fields[cls]) : Fields[cls][j][2] = Required}}

\* an __init__ that takes any keyword (def __init__(self, **kwargs)): only a
\* missing required field is a TypeError
Binds_any_keyword(cls, kwargs) == RequiredNames(cls) \subseteq DOMAIN kwargs

\* The generated __init__ binds keyword arguments to fields: an unknown keyword
\* or a missing required field is a TypeError.
Binds(cls, kwargs) ==
    /\ DOMAIN kwargs \subseteq FieldNames(cls)
    /\ RequiredNames(cls) \subseteq DOMAIN kwargs

Defaults(cls) ==
    [n \in FieldNames(cls) \ RequiredNames(cls) |->
        LET i == CHOOSE j \in 1..Len(Fields[cls]) : Fields[cls][j][1] = n
        IN  Fields[cls][i][2]]

\* check_range with the upper bound excluded (lo <= value < hi)
check_range_exclusive(value, lo, hi, msg) ==
    IF ~IsNumber(value) THEN PyError("TypeError")
    ELSE IF ~InRange(value, lo, hi) \/ InRange(value, hi, hi) THEN ValidationError(msg)
    ELSE NoError

\* if not (lo <= value <= hi): raise ValidationError; comparing a non-number
\* with an int is a TypeError
check_range(value, lo, hi, msg) ==
    IF ~IsNumber(value) THEN PyError("TypeError")
    ELSE IF ~InRange(value, lo, hi) THEN ValidationError(msg)
    ELSE NoError

\* if value.lower() not in valid: raise ValidationError; only str has lower()
check_enum(value, valid, msg) ==
    IF value.t # "str" THEN PyError("AttributeError")
    ELSE IF Lower(value.s) \notin valid THEN ValidationError(msg)
    ELSE NoError

\* a > b for two dates
DateGt(a, b) ==
    \/ a.y > b.y
    \/ a.y = b.y /\ a.mo > b.mo
    \/ a.y = b.y /\ a.mo = b.mo /\ a.d > b.d

\* _validate_date refusing today's date as well (self.date >= today)
validate_date_strict(value, now) ==
    IF value.t # "date" THEN PyError("TypeError")
    ELSE IF DateGt(value, now) \/ value = now THEN ValidationError("date_in_future")
    ELSE NoError

\* if self.date > datetime.now().date(): raise ValidationError
validate_date(value, now) ==
    IF value.t # "date" THEN PyError("TypeError")
    ELSE IF DateGt(value, now) THEN ValidationError("date_in_future")
    ELSE NoError

valid_pol        == {"muzhskoy", "zhenskiy"}
valid_goals      == {"pohudenie", "nabor massy", "podderzhanie formy", "relyef"}
valid_activities == {"nizkaya", "srednyaya", "vysokaya", "ochen vysokaya"}
valid_goal_types == {"pohudenie", "podderzhanie", "nabor massy"}

\* The checks __post_init__ makes, in its order.
PostInitChecks(cls, f, now) ==
    CASE cls = "UserProfile" ->
            << check_enum(f["pol"], valid_pol, "gender"),
               check_range(f["age"], 1, 120, "age"),
               check_range(f["height"], 50, 250, "height"),
               check_range(f["weight"], 20, 300, "weight"),
               check_enum(f["goal"], valid_goals, "goal"),
               check_enum(f["activity_type"], valid_activities, "activity_type") >>
      [] cls = "Exercise" ->
            << check_range(f["sets"], 1, 20, "sets"),
               check_range(f["reps_per_set"], 1, 100, "reps_per_set"),
               check_range(f["weight"], 0, 1000, "weight") >>
      [] cls = "Workout" ->
            << validate_date(f["date"], now) >>
      [] cls = "NutritionGoal" ->
            << check_enum(f["goal_type"], valid_goal_types, "goal_type"),
               check_range(f["calories"], 500, 5000, "calories"),
               check_range(f["protein"], 0, 500, "protein"),
               check_range(f["fat"], 0, 200, "fat"),
               check_range(f["carbs"], 0, 1000, "carbs") >>

\* the first check that raises, NoError when none does
FirstError(checks) ==
    IF \E i \in 1..Len(checks) : IsError(checks[i])
    THEN checks[CHOOSE i \in 1..Len(checks) :
                    IsError(checks[i]) /\ \A j \in 1..(i - 1) : ~IsError(checks[j])]
    ELSE NoError

\* cls(**kwargs) at date now: __init__, then __post_init__
construct(cls, kwargs, now) ==
    IF ~Binds(cls, kwargs) THEN PyError("TypeError")
    ELSE LET f == kwargs @@ Defaults(cls)
             raised == FirstError(PostInitChecks(cls, f, now))
         IN  IF IsError(raised) THEN raised
             ELSE [kind |-> "record", cls |-> cls, fields |-> f]

\* A quotient of two decimals, kept as the fraction num / den (den > 0).
Rat(num, den) == [t |-> "rat", num |-> num, den |-> den]

\* r < n / d and r >= n / d for a fraction r and the number n / d
RatLt(r, n, d) == r.num * d < n * r.den

RatGe(r, n, d) == ~RatLt(r, n, d)

\* height_m = self.height / 100; return self.weight / (height_m ** 2).
\* With weight = mw / 10^ew and height = mh / 10^eh this is
\* mw * 10^(2 eh + 4 - ew) / mh^2; a height of 0 is a division by zero.
calculate_bmi(self) ==
    LET w == self.fields["weight"]
        h == self.fields["height"]
        k == 2 * NumExp(h) + 4 - NumExp(w)
    IN  IF NumMant(h) = 0 THEN PyError("ZeroDivisionError")
        ELSE IF k >= 0
        THEN Rat(NumMant(w) * Pow10(k), NumMant(h) * NumMant(h))
        ELSE Rat(NumMant(w), NumMant(h) * NumMant(h) * Pow10(0 - k))

\* the bands with the boundary values in the lower band (bmi <= 18.5, ...)
get_bmi_category_inclusive(self) ==
    LET bmi == calculate_bmi(self)
    IN  IF IsError(bmi) THEN bmi
        ELSE IF ~RatLt(Rat(37, 2), bmi.num, bmi.den) THEN StrVal("Nedostatochnyy ves")
        ELSE IF ~RatLt(Rat(25, 1), bmi.num, bmi.den) THEN StrVal("Normalnyy ves")
        ELSE IF ~RatLt(Rat(30, 1), bmi.num, bmi.den) THEN StrVal("Izbytochnyy ves")
        ELSE StrVal("Ozhirenie")

\* if bmi < 18.5 ... elif 18.5 <= bmi < 25 ... elif 25 <= bmi < 30 ... else
\* (18.5 is written 37 / 2)
get_bmi_category(self) ==
    LET bmi == calculate_bmi(self)
    IN  IF IsError(bmi) THEN bmi
        ELSE IF RatLt(bmi, 37, 2) THEN StrVal("Nedostatochnyy ves")
        ELSE IF RatGe(bmi, 37, 2) /\ RatLt(bmi, 25, 1) THEN StrVal("Normalnyy ves")
        ELSE IF RatGe(bmi, 25, 1) /\ RatLt(bmi, 30, 1) THEN StrVal("Izbytochnyy ves")
        ELSE StrVal("Ozhirenie")

----------------------------------------------------------------------------
(* ObjectFactory and create_object_from_string *)

OBJECT_CLASSES == {"UserProfile", "Exercise", "Workout", "NutritionGoal"}

create_object(parsed_data, now) ==
    IF parsed_data.type \notin OBJECT_CLASSES THEN ParseError("unknown_kind")
    ELSE LET made == construct(parsed_data.type, parsed_data.properties, now)
         IN  IF IsError(made) /\ made.exc = "TypeError"
             THEN ParseError("create_type_error")
             ELSE made

\* the pipeline with no except clause: what parse_object and the constructor
\* raise escapes as it is
create_object_from_string_unguarded(object_str, now) ==
    LET parsed_data == parse_object(object_str)
    IN  IF IsError(parsed_data) THEN parsed_data
        ELSE IF parsed_data.type \notin OBJECT_CLASSES THEN PyError("KeyError")
        ELSE construct(parsed_data.type, parsed_data.properties, now)

create_object_from_string(object_str, now) ==
    LET parsed_data == parse_object(object_str)
    IN  IF IsError(parsed_data) THEN parsed_data
        ELSE LET made == create_object(parsed_data, now)
             IN  IF IsError(made) /\ made.exc \notin {"ParseError", "ValidationError"}
                 THEN ParseError("unexpected")
                 ELSE made

----------------------------------------------------------------------------
(* Bounds and inputs *)

\* how many slots of a line or of a constructor call differ from the valid one
MaxDeviations == 1

\* how many times the date changes
MaxTicks == 1

\* the date at the start
Today0 == DateVal(2025, 12, 14)

NextDay(date) ==
    IF date.d < DaysInMonth(date.y, date.mo) THEN DateVal(date.y, date.mo, date.d + 1)
    ELSE IF date.mo < 12 THEN DateVal(date.y, date.mo + 1, 1)
    ELSE DateVal(date.y + 1, 1, 1)

RECURSIVE AddDays(_, _)
AddDays(date, n) == IF n = 0 THEN date ELSE AddDays(NextDay(date), n - 1)

\* two parts of a line, a space between them
Cat(a, b) == IF a = "" THEN b ELSE IF b = "" THEN a ELSE a \o " " \o b

\* The lines of a template: a template is a sequence of slots, a slot the
\* spellings one part of the line may take, the well-formed one first ("" leaves
\* the part out).  At most budget slots take another spelling than the first.
RECURSIVE GenLines(_, _, _)
GenLines(slots, i, budget) ==
    IF i > Len(slots) THEN {""}
    ELSE {Cat(slots[i][1], r) : r \in GenLines(slots, i + 1, budget)}
         \cup (IF budget = 0 THEN {}
               ELSE {Cat(slots[i][a], r) :
                        a \in 2..Len(slots[i]), r \in GenLines(slots, i + 1, budget - 1)})

UserProfileSlots ==
    << << "UserProfile", "userprofile", "UnknownKind" >>,
       << "gender \"muzhskoy\"", "pol \"Zhenskiy\"", "gender \"neizvestnyy\"",
          "gender 1", "" >>,
       << "age 25", "vozrast 1", "age 150", "age 0", "AGE 25", "age 25.0" >>,
       << "height 180.5", "rost 250.0", "height 250.5", "height 180" >>,
       << "weight 75.0", "ves 20.0", "weight 19.9", "massa 300.0" >>,
       << "goal \"pohudenie\"", "tsel \"nabor massy\"", "goal relyef", "goal \"x\"" >>,
       << "activity_type \"srednyaya\"", "aktivnost \"Ochen Vysokaya\"",
          "\"tip aktivnosti\" \"nizkaya\"" >>,
       << "", "gender \"zhenskiy\"", "gjender \"zhenskiy\"", "notes \"x\"", "age",
          "ves 2025.13.45", "data 2025.13.45", "x \"y" >> >>

ExerciseSlots ==
    << << "Exercise", "exercise" >>,
       << "name \"Prisedaniya\"", "nazvanie \"Zhim lezha\"", "name Zhim", "name 5", "" >>,
       << "sets 4", "podhody 20", "sets 21", "sets 0" >>,
       << "reps_per_set 10", "povtory 100", "povtoreniy 1", "reps_per_set 101" >>,
       << "weight 60.0", "ves 0.0", "massa 1000.0", "weight 1000.5", "weight -0.5",
          "weight 60" >>,
       << "", "notes \"legko\"", "primechaniya \"a\" kommentarii \"b\"", "ves 1.0",
          "sets", "duration 25:61" >> >>

WorkoutSlots ==
    << << "Workout", "WORKOUT" >>,
       << "date 2025.12.15", "data 2025.12.14", "date 2025.12.16", "date 2025.13.45",
          "date 2025.02.29", "date 2025-12-15", "" >>,
       << "duration 01:30", "dlitelnost 23:59", "prodolzhitelnost 00:00",
          "duration 25:61", "duration 1:30" >>,
       << "", "uprazhneniya \"x\"", "notes \"x\"", "data 2025.12.15", "exercises",
          "Date 2025.12.15" >> >>

NutritionGoalSlots ==
    << << "NutritionGoal", "Nutritiongoal" >>,
       << "goal_type \"pohudenie\"", "tip_tseli \"Nabor massy\"", "goal_type \"relyef\"" >>,
       << "calories 1800.0", "kalorii 500.0", "calories 5000.0", "calories 5000.5",
          "calories 499.9", "calories 1800" >>,
       << "protein 120.0", "belok 500.0", "protjein 0.0", "protein 500.5" >>,
       << "fat 50.0", "zhiry 200.0", "fat 200.5", "" >>,
       << "carbs 180.0", "karbs 1000.0", "uglevody 1000.5", "carbs -1.0" >>,
       << "", "belok 1.0", "x", "protjein 1.0 protein 2.0" >> >>

LineTemplates ==
    << UserProfileSlots, ExerciseSlots, WorkoutSlots, NutritionGoalSlots >>

\* lines that no template gives: blank, one or two tokens, runs of spaces
ExtraLines ==
    { "", " ", "\t", "  \t ", "UserProfile", "UserProfile gender",
      "UserProfile gender \"muzhskoy\" age",
      "UnknownKind x 1", "UnknownType prop1 \"value1\" prop2 123",
      "UserProfile gender \"muzhskoy",
      "  Exercise   name \"Zhim  lezha\"  sets 3 reps_per_set 8   weight 67.5 ",
      "Workout\tdate 2025.12.15 duration 01:30",
      "x \"a\"b \"c d\"e",
      "Workout date 2025.13.45 duration 01:30 data 2025.12.15",
      "Workout date 2025.12.15 duration 25:61 date 2025.12.15",
      "Exercise ves 1.0 massa 2.0 x",
      "UserProfile pol \"muzhskoy\" gender \"zhenskiy\"",
      "Exercise ves 1.0 massa 2.0",
      "UserProfile gender \"muzhskoy\" age \"dvadtsat pyat\"",
      "UserProfile gender muzhskoy age 25",
      "UserProfile gender \"muzhskoy\" age 25 height \"sto vosemdesyat\"",
      "Exercise name 5 sets 3.0 reps_per_set \"x\" weight 60",
      "Workout notes \"x\"",
      "Workout date 01:30 duration 2025.12.15",
      "NutritionGoal goal_type 1 calories 1800 zhiry 50.0",
      "Exercise name \"Prisedaniya\" sets 21 reps_per_set 10 weight 60",
      "Exercise name \"Prisedaniya\" sets 21 reps_per_set 10",
      "NutritionGoal goal_type \"pohudenie\" calories 9000.0 protein 120.0",
      "Exercise name \"Zhim sets 21 sets 3",
      "Exercise name \"Prisedaniya\" sets 4 reps_per_set 10 weight 60.0 duration 01:30",
      "Exercise name \"Prisedaniya\" sets 4 reps_per_set 10 weight 60.0 exercises \"x\"",
      "NutritionGoal goal_type \"pohudenie\" calories 1800.0 protein 120.0 fat 50.0 carbs 180.0 notes \"x\"",
      "Workout date 2025.12.14 duration 01:30 notes \"utro\" exercises \"x\" weight 1.0",
      "Workout date 2025.13.45 duration",
      "Workout date 2025.12.15 duration 01:30 data 2025.13.45",
      "Workout duration 25:61",
      "UnknownKind x 2025.13.45",
      "UnknownKind x 1 x 2",
      "Exercise name \"Prisedaniya\" sets 21 reps_per_set 10 weight 60.0 foo 1",
      "Exercise name \"Prisedaniya\" sets 21 reps_per_set 101 weight 1000.5",
      "Exercise name \"Prisedaniya\" sets 4 reps_per_set 101 weight 1000.5",
      "Exercise weight 1000.5 reps_per_set 101 sets 4 name \"Prisedaniya\"",
      "NutritionGoal goal_type \"relyef\" calories 5000.5 protein 120.0 fat 50.0 carbs 180.0",
      "NutritionGoal goal_type \"pohudenie\" calories 1800.0 protein 500.5 fat 200.5 carbs 1000.5",
      "NutritionGoal carbs 1000.5 fat 200.5 protein 120.0 calories 1800.0 goal_type \"pohudenie\"" }

Lines ==
    UNION {GenLines(LineTemplates[k], 1, MaxDeviations) : k \in 1..Len(LineTemplates)}
    \cup ExtraLines

\* tokens for parse_value
DateTokens ==
    {y \o "." \o m \o "." \o d :
        y \in {"2025", "2024", "0000"},
        m \in {"00", "01", "02", "04", "12", "13"},
        d \in {"00", "01", "28", "29", "30", "31", "32", "45"}}

TimeTokens ==
    {h \o ":" \o m :
        h \in {"00", "01", "14", "23", "24", "25", "99"},
        m \in {"00", "30", "59", "60", "61"}}

OtherTokens ==
    { "2025-12-15", "2025/12/15", "2025.12-15", "2025.12.1", "25.12.2025", "1:30", "01:30:00", "14.30", "1430",
      "42", "-10", "007", "3.14", "-2.5", "0.50", "\"privet\"", "\"primer stroki\"",
      "\"2025.12.15\"", "\"14:30\"", "\"\"", "\"", "abc", "12a", "1.2.3", "-", "--1",
      ".5", "5.", "" }

ValueTokens == DateTokens \cup TimeTokens \cup OtherTokens

\* The keyword arguments of constructor calls: as GenLines, a slot holding the
\* arguments one field may be given, the valid one first.
RECURSIVE GenKwargs(_, _, _)
GenKwargs(slots, i, budget) ==
    IF i > Len(slots) THEN {<<>>}
    ELSE {slots[i][1] @@ r : r \in GenKwargs(slots, i + 1, budget)}
         \cup (IF budget = 0 THEN {}
               ELSE {slots[i][a] @@ r :
                        a \in 2..Len(slots[i]), r \in GenKwargs(slots, i + 1, budget - 1)})

Arg(name, alternatives) == [a \in 1..Len(alternatives) |-> name :> alternatives[a]]

UserProfileArgs ==
    << << "pol" :> StrVal("muzhskoy"), "pol" :> StrVal("ZHENSKIY"),
          "pol" :> StrVal("drugoy"), "gender" :> StrVal("muzhskoy"),
          "pol" :> IntVal(1), <<>> >>,
       Arg("age", << IntVal(25), IntVal(1), IntVal(120), IntVal(0), IntVal(121),
                     IntVal(150), StrVal("25") >>),
       Arg("height", << FloatVal(1805, 1), FloatVal(50, 0), FloatVal(250, 0),
                        FloatVal(499, 1), FloatVal(2501, 1), IntVal(300) >>),
       Arg("weight", << FloatVal(75, 0), FloatVal(20, 0), FloatVal(300, 0),
                        FloatVal(199, 1), FloatVal(3001, 1) >>),
       Arg("goal", << StrVal("pohudenie"), StrVal("Nabor Massy"), StrVal("sila") >>),
       Arg("activity_type", << StrVal("srednyaya"), StrVal("ochen vysokaya"),
                               StrVal("nulevaya") >>) >>

ExerciseArgs ==
    << Arg("name", << StrVal("Prisedaniya"), StrVal("") >>),
       Arg("sets", << IntVal(4), IntVal(1), IntVal(20), IntVal(0), IntVal(21),
                      StrVal("4") >>),
       Arg("reps_per_set", << IntVal(10), IntVal(1), IntVal(100), IntVal(0),
                              IntVal(101) >>),
       Arg("weight", << FloatVal(60, 0), FloatVal(0, 0), FloatVal(1000, 0),
                        FloatVal(-1, 1), FloatVal(10001, 1), IntVal(1001) >>),
       << <<>>, "notes" :> StrVal("legko") >> >>

WorkoutArgs ==
    << Arg("date", << DateVal(2025, 12, 15), DateVal(2025, 12, 14),
                      DateVal(2025, 12, 16), DateVal(2026, 1, 1),
                      DateVal(2024, 12, 31),
                      StrVal("2025.12.15") >>),
       Arg("duration", << TimeVal(1, 30), TimeVal(0, 0) >>),
       << <<>>, "exercises" :> ListVal(<<>>), "notes" :> StrVal("utro") >> >>

NutritionGoalArgs ==
    << Arg("goal_type", << StrVal("pohudenie"), StrVal("PODDERZHANIE"),
                           StrVal("relyef") >>),
       Arg("calories", << FloatVal(1800, 0), FloatVal(500, 0), FloatVal(5000, 0),
                          FloatVal(4999, 1), FloatVal(50001, 1), FloatVal(10000, 0) >>),
       Arg("protein", << FloatVal(120, 0), FloatVal(0, 0), FloatVal(500, 0),
                         FloatVal(-1, 1), FloatVal(5001, 1) >>),
       Arg("fat", << FloatVal(50, 0), FloatVal(0, 0), FloatVal(200, 0),
                     FloatVal(-1, 1), FloatVal(2001, 1) >>),
       Arg("carbs", << FloatVal(180, 0), FloatVal(0, 0), FloatVal(1000, 0),
                       FloatVal(-1, 1), FloatVal(10001, 1) >>) >>

CtorArgs ==
    ( "UserProfile" :> UserProfileArgs ) @@ ( "Exercise" :> ExerciseArgs ) @@
    ( "Workout" :> WorkoutArgs ) @@ ( "NutritionGoal" :> NutritionGoalArgs )

Kwargs ==
    [cls \in OBJECT_CLASSES |-> GenKwargs(CtorArgs[cls], 1, MaxDeviations)]

\* UserProfile calls whose height and weight put the body-mass index on and
\* next to the limits of the bands
BmiProfiles ==
    { [pol |-> StrVal("muzhskoy"), age |-> IntVal(25), height |-> hw[1],
       weight |-> hw[2], goal |-> StrVal("pohudenie"),
       activity_type |-> StrVal("srednyaya")] :
        hw \in { <<FloatVal(200, 0), FloatVal(74, 0)>>, <<FloatVal(200, 0), FloatVal(739, 1)>>,
                 <<FloatVal(200, 0), FloatVal(100, 0)>>, <<FloatVal(200, 0), FloatVal(998, 1)>>,
                 <<FloatVal(200, 0), FloatVal(996, 1)>>, <<FloatVal(200, 0), FloatVal(120, 0)>>,
                 <<FloatVal(200, 0), FloatVal(1199, 1)>>, <<FloatVal(200, 0), FloatVal(1196, 1)>>,
                 <<FloatVal(200, 0), FloatVal(60, 0)>>, <<FloatVal(100, 0), FloatVal(20, 0)>>,
                 <<FloatVal(100, 0), FloatVal(185, 1)>>, <<FloatVal(100, 0), FloatVal(30, 0)>>,
                 <<FloatVal(250, 0), FloatVal(300, 0)>>, <<FloatVal(180, 0), FloatVal(72, 0)>>,
                 <<IntVal(200), IntVal(100)>>, <<FloatVal(50, 0), FloatVal(300, 0)>> } }

\* UserProfile calls with two fields out of their limits
TwoDefectProfiles ==
    { [pol |-> StrVal("drugoy"), age |-> IntVal(150), height |-> FloatVal(1805, 1),
       weight |-> FloatVal(75, 0), goal |-> StrVal("pohudenie"),
       activity_type |-> StrVal("srednyaya")],
      [pol |-> StrVal("muzhskoy"), age |-> IntVal(0), height |-> FloatVal(300, 0),
       weight |-> FloatVal(75, 0), goal |-> StrVal("pohudenie"),
       activity_type |-> StrVal("srednyaya")],
      [pol |-> StrVal("muzhskoy"), age |-> IntVal(25), height |-> FloatVal(499, 1),
       weight |-> FloatVal(3001, 1), goal |-> StrVal("pohudenie"),
       activity_type |-> StrVal("srednyaya")],
      [pol |-> StrVal("muzhskoy"), age |-> IntVal(25), height |-> FloatVal(1805, 1),
       weight |-> FloatVal(199, 1), goal |-> StrVal("sila"),
       activity_type |-> StrVal("srednyaya")],
      [pol |-> StrVal("muzhskoy"), age |-> IntVal(25), height |-> FloatVal(1805, 1),
       weight |-> FloatVal(75, 0), goal |-> StrVal("sila"),
       activity_type |-> StrVal("nulevaya")],
      [pol |-> StrVal("drugoy"), age |-> IntVal(25), height |-> FloatVal(1805, 1),
       weight |-> FloatVal(75, 0), goal |-> StrVal("pohudenie"),
       activity_type |-> StrVal("nulevaya")] }

\* the keyword arguments the constructor of cls is called with
CtorCalls(cls) ==
    Kwargs[cls]
    \cup (IF cls = "UserProfile" THEN BmiProfiles \cup TwoDefectProfiles ELSE {})

----------------------------------------------------------------------------
(* The state machine: a caller of the parser and of the record classes *)

NoCall == [op |-> "none"]

Init ==
    /\ today = Today0
    /\ pc = "idle"
    /\ last = NoCall
    /\ memo = NoCall
    /\ objects = <<>>
    /\ user_data = <<>>

\* a call of op on arg returns (or raises) out
Returned(op, arg, out) ==
    /\ pc' = "done"
    /\ last' = [op |-> op, arg |-> arg, now |-> today, out |-> out]
    /\ UNCHANGED <<today, memo, objects, user_data>>

\* Between two calls the date changes: datetime.now().date() gives the next day.
Tick ==
    /\ pc = "idle"
    /\ DateGt(AddDays(Today0, MaxTicks), today)
    /\ today' = NextDay(today)
    /\ UNCHANGED <<pc, last, memo, objects, user_data>>

CallParseValue ==
    /\ pc = "idle"
    /\ \E value_str \in ValueTokens :
          Returned("parse_value", value_str, parse_value(value_str))

\* keys for _translate_key: aliases and other keys, in several letter cases
Keys ==
    { "age", "AGE", "Age", "pol", "Pol", "POL", "ves", "gender", "Gender",
      "tip aktivnosti", "Tip Aktivnosti", "tip_aktivnosti", "TIP_AKTIVNOSTI",
      "my key", "My Key", "my_key", "notes", "x", "" }

CallTranslateKey ==
    /\ pc = "idle"
    /\ \E key \in Keys : Returned("translate_key", key, translate_key(key))

CallTokenize ==
    /\ pc = "idle"
    /\ \E object_str \in Lines :
          Returned("tokenize_string", object_str, tokenize_string(object_str))

CallParseObject ==
    /\ pc = "idle"
    /\ \E object_str \in Lines :
          Returned("parse_object", object_str, parse_object(object_str))

\* ObjectFactory.create_object on the descriptor parse_object has just returned
CallCreateObject ==
    /\ pc = "done"
    /\ last.op = "parse_object"
    /\ ~IsError(last.out)
    /\ pc' = "done"
    /\ last' = [op |-> "create_object", arg |-> last.arg, now |-> today,
                parsed |-> last.out, out |-> create_object(last.out, today)]
    /\ UNCHANGED <<today, memo, objects, user_data>>

CallCreateFromString ==
    /\ pc = "idle"
    /\ \E object_str \in Lines :
          Returned("create_object_from_string", object_str,
                   create_object_from_string(object_str, today))

\* a record class called with keyword arguments
CallConstructor ==
    /\ pc = "idle"
    /\ \E cls \in OBJECT_CLASSES : \E kwargs \in CtorCalls(cls) :
          Returned("construct", [cls |-> cls, kwargs |-> kwargs],
                   construct(cls, kwargs, today))

\* profile.get_bmi_category() on the UserProfile a constructor has just returned
CallGetBmiCategory ==
    /\ pc = "done"
    /\ last.op = "construct"
    /\ ~IsError(last.out)
    /\ last.out.cls = "UserProfile"
    /\ pc' = "done"
    /\ last' = [op |-> "get_bmi_category", arg |-> last.out, now |-> today,
                out |-> get_bmi_category(last.out)]
    /\ UNCHANGED <<today, memo, objects, user_data>>

\* the caller drops the result
Return ==
    /\ pc = "done"
    /\ pc' = "idle"
    /\ last' = NoCall
    /\ UNCHANGED <<today, memo, objects, user_data>>

Next ==
    \/ Tick
    \/ CallParseValue
    \/ CallTranslateKey
    \/ CallTokenize
    \/ CallParseObject
    \/ CallCreateObject
    \/ CallCreateFromString
    \/ CallConstructor
    \/ CallGetBmiCategory
    \/ Return

Spec == Init /\ [][Next]_vars

----------------------------------------------------------------------------
(* Repeated calls of create_object_from_string on different days *)

\* the lines the repeated calls are made on
IdemLines ==
    { "Exercise name \"Prisedaniya\" sets 4 reps_per_set 10 weight 60.0",
      "Exercise nazvanie \"Zhim lezha\" podhody 3 povtory 8 ves 67.5 notes \"legko\"",
      "Exercise name \"Prisedaniya\" sets 21 reps_per_set 10 weight 60.0",
      "Workout date 2025.12.13 duration 01:30",
      "Workout date 2025.12.14 duration 01:30",
      "Workout date 2025.12.15 duration 01:30",
      "Workout data 2025.12.16 dlitelnost 00:45 notes \"utro\"",
      "Workout date 2025.12.17 duration 01:30",
      "Workout date 2025.13.45 duration 01:30",
      "workout date 2025.12.15 duration 01:30",
      "NutritionGoal goal_type \"pohudenie\" calories 1800.0 protein 120.0 fat 50.0 carbs 180.0",
      "UserProfile gender \"muzhskoy\" age 25 height 180.5 weight 75.0 goal \"pohudenie\" activity_type \"srednyaya\"",
      "UserProfile gender",
      "" }

\* create_object_from_string(object_str), the call before still in last
IdemCall ==
    /\ \E object_str \in IdemLines :
          last' = [op |-> "create_object_from_string", arg |-> object_str,
                   now |-> today,
                   out |-> create_object_from_string(object_str, today)]
    /\ pc' = "done"
    /\ UNCHANGED <<today, memo, objects, user_data>>

\* the caller keeps the outcome of the call to compare later ones with it
Remember ==
    /\ pc = "done"
    /\ memo # last
    /\ memo' = last
    /\ UNCHANGED <<today, pc, last, objects, user_data>>

\* the date changes, whatever the caller is doing
IdemTick ==
    /\ DateGt(AddDays(Today0, MaxTicks), today)
    /\ today' = NextDay(today)
    /\ UNCHANGED <<pc, last, memo, objects, user_data>>

NextIdem ==
    \/ IdemCall
    \/ Remember
    \/ IdemTick

SpecIdem == Init /\ [][NextIdem]_vars

----------------------------------------------------------------------------
(* The records a caller holds: construction and Workout.add_exercise *)

\* how many records the caller holds
MaxObjects == 2

\* how many times add_exercise is called with success
MaxAppends == 2

\* self.exercises = [exercise]: the list replaced by one that holds the new
\* exercise only
add_exercise_replace(self, exercise) ==
    IF self.fields["exercises"].t # "list" THEN PyError("AttributeError")
    ELSE [kind |-> "record", cls |-> self.cls,
          fields |-> [self.fields EXCEPT !["exercises"] = ListVal(<< exercise >>)]]

\* self.exercises.append(exercise): the record after the call; only a list has
\* append.  exercise is the address of the object appended.
add_exercise(self, exercise) ==
    IF self.fields["exercises"].t # "list" THEN PyError("AttributeError")
    ELSE [kind |-> "record", cls |-> self.cls,
          fields |-> [self.fields EXCEPT
                         !["exercises"] = ListVal(Append(@.items, exercise))]]

\* a * b for two Python numbers: a float when one of them is a float
MulNum(a, b) ==
    IF a.t = "int" /\ b.t = "int" THEN IntVal(a.i * b.i)
    ELSE FloatVal(NumMant(a) * NumMant(b), NumExp(a) + NumExp(b))

\* a + b for two Python numbers
AddNum(a, b) ==
    IF a.t = "int" /\ b.t = "int" THEN IntVal(a.i + b.i)
    ELSE LET exp == IF NumExp(a) > NumExp(b) THEN NumExp(a) ELSE NumExp(b)
         IN  FloatVal(NumMant(a) * Pow10(exp - NumExp(a))
                        + NumMant(b) * Pow10(exp - NumExp(b)), exp)

\* return self.sets * self.reps_per_set * self.weight
calculate_volume(self) ==
    MulNum(MulNum(self.fields["sets"], self.fields["reps_per_set"]),
           self.fields["weight"])

\* len(self.exercises): a list and a str have a length
get_exercise_count(self) ==
    LET exercises == self.fields["exercises"]
    IN  IF exercises.t = "list" THEN IntVal(Len(exercises.items))
        ELSE IF exercises.t = "str" THEN IntVal(Len(exercises.s))
        ELSE PyError("TypeError")

\* sum(...) from the i-th element of the list on, total being the sum so far;
\* an element that is no Exercise has no calculate_volume
RECURSIVE SumVolumes(_, _, _, _)
SumVolumes(objs, items, i, total) ==
    IF i > Len(items) THEN total
    ELSE IF objs[items[i]].cls # "Exercise" THEN PyError("AttributeError")
    ELSE SumVolumes(objs, items, i + 1,
                    AddNum(total, calculate_volume(objs[items[i]])))

\* the sum that leaves the first exercise of the list out
calculate_total_volume_from_one(objs, self) ==
    LET exercises == self.fields["exercises"]
    IN  IF exercises.t = "list" THEN SumVolumes(objs, exercises.items, 2, IntVal(0))
        ELSE IF exercises.t = "str"
        THEN (IF exercises.s = "" THEN IntVal(0) ELSE PyError("AttributeError"))
        ELSE PyError("TypeError")

\* sum(exercise.calculate_volume() for exercise in self.exercises), from 0;
\* the elements of a str are its characters, which have no calculate_volume
calculate_total_volume(objs, self) ==
    LET exercises == self.fields["exercises"]
    IN  IF exercises.t = "list" THEN SumVolumes(objs, exercises.items, 1, IntVal(0))
        ELSE IF exercises.t = "str"
        THEN (IF exercises.s = "" THEN IntVal(0) ELSE PyError("AttributeError"))
        ELSE PyError("TypeError")

\* the constructor calls the caller makes
HeapCalls ==
    { [cls |-> "Exercise",
       kwargs |-> [name |-> StrVal("Prisedaniya"), sets |-> IntVal(4),
                   reps_per_set |-> IntVal(10), weight |-> FloatVal(60, 0)]],
      [cls |-> "Exercise",
       kwargs |-> [name |-> StrVal("Zhim lezha"), sets |-> IntVal(20),
                   reps_per_set |-> IntVal(100), weight |-> IntVal(1000),
                   notes |-> StrVal("legko")]],
      [cls |-> "Exercise",
       kwargs |-> [name |-> StrVal("Tyaga"), sets |-> IntVal(3),
                   reps_per_set |-> IntVal(8), weight |-> FloatVal(675, 1)]],
      [cls |-> "Exercise",
       kwargs |-> [name |-> StrVal("Zhim lezha"), sets |-> IntVal(21),
                   reps_per_set |-> IntVal(10), weight |-> FloatVal(60, 0)]],
      [cls |-> "Workout",
       kwargs |-> [date |-> DateVal(2025, 12, 14), duration |-> TimeVal(1, 30)]],
      [cls |-> "Workout",
       kwargs |-> [date |-> DateVal(2025, 12, 15), duration |-> TimeVal(0, 45),
                   notes |-> StrVal("utro")]],
      [cls |-> "UserProfile",
       kwargs |-> [pol |-> StrVal("muzhskoy"), age |-> IntVal(25),
                   height |-> FloatVal(1805, 1), weight |-> FloatVal(75, 0),
                   goal |-> StrVal("pohudenie"),
                   activity_type |-> StrVal("srednyaya")]],
      [cls |-> "NutritionGoal",
       kwargs |-> [goal_type |-> StrVal("pohudenie"), calories |-> FloatVal(1800, 0),
                   protein |-> FloatVal(120, 0), fat |-> FloatVal(50, 0),
                   carbs |-> FloatVal(180, 0)]] }

\* the lines the caller builds records from
HeapLines ==
    { "Exercise name \"Prisedaniya\" sets 4 reps_per_set 10 weight 60.0",
      "Workout date 2025.12.14 duration 01:30 uprazhneniya \"x\"",
      "Workout date 2025.12.16 duration 01:30",
      "Exercise name \"Prisedaniya\" sets 4" }

\* the number of exercises appended so far
RECURSIVE Appended(_, _)
Appended(objs, a) ==
    IF a > Len(objs) THEN 0
    ELSE Appended(objs, a + 1)
         + (IF objs[a].cls = "Workout" /\ objs[a].fields["exercises"].t = "list"
            THEN Len(objs[a].fields["exercises"].items) ELSE 0)

\* the caller keeps the record a call has returned; a call that raises leaves
\* the records as they are
Keep(made) ==
    /\ objects' = IF IsError(made) THEN objects ELSE Append(objects, made)
    /\ UNCHANGED <<today, pc, last, memo, user_data>>

\* no record held, no call of add_exercise made; memo is the sequence of the
\* calls of add_exercise that have returned, each with its workout and exercise
InitHeap ==
    /\ today = Today0
    /\ pc = "idle"
    /\ last = NoCall
    /\ memo = <<>>
    /\ objects = <<>>
    /\ user_data = <<>>

\* cls(**kwargs)
HeapConstruct ==
    /\ pc = "idle"
    /\ Len(objects) < MaxObjects
    /\ \E call \in HeapCalls : Keep(construct(call.cls, call.kwargs, today))

\* create_object_from_string(object_str)
HeapCreateFromString ==
    /\ pc = "idle"
    /\ Len(objects) < MaxObjects
    /\ \E object_str \in HeapLines : Keep(create_object_from_string(object_str, today))

\* workout.add_exercise(exercise): any object may be passed, the method does
\* not look at what it appends
AddExercise ==
    /\ pc = "idle"
    /\ Appended(objects, 1) < MaxAppends
    /\ \E w, e \in DOMAIN objects :
          /\ objects[w].cls = "Workout"
          /\ LET after == add_exercise(objects[w], e)
             IN  IF IsError(after)
                 THEN UNCHANGED <<objects, memo>>
                 ELSE /\ objects' = [objects EXCEPT ![w] = after]
                      /\ memo' = Append(memo, [w |-> w, e |-> e])
    /\ UNCHANGED <<today, pc, last, user_data>>

\* workout.get_exercise_count()
GetExerciseCount ==
    /\ pc = "idle"
    /\ pc' = "done"
    /\ \E w \in DOMAIN objects :
          /\ objects[w].cls = "Workout"
          /\ last' = [op |-> "get_exercise_count", w |-> w,
                      out |-> get_exercise_count(objects[w])]
    /\ UNCHANGED <<today, memo, objects, user_data>>

\* workout.calculate_total_volume()
CalculateTotalVolume ==
    /\ pc = "idle"
    /\ pc' = "done"
    /\ \E w \in DOMAIN objects :
          /\ objects[w].cls = "Workout"
          /\ last' = [op |-> "calculate_total_volume", w |-> w,
                      out |-> calculate_total_volume(objects, objects[w])]
    /\ UNCHANGED <<today, memo, objects, user_data>>

\* the caller has read the result of the method
HeapReturn ==
    /\ pc = "done"
    /\ pc' = "idle"
    /\ last' = NoCall
    /\ UNCHANGED <<today, memo, objects, user_data>>

HeapTick ==
    /\ pc = "idle"
    /\ DateGt(AddDays(Today0, MaxTicks), today)
    /\ today' = NextDay(today)
    /\ UNCHANGED <<pc, last, memo, objects, user_data>>

NextHeap ==
    \/ HeapConstruct
    \/ HeapCreateFromString
    \/ AddExercise
    \/ GetExerciseCount
    \/ CalculateTotalVolume
    \/ HeapReturn
    \/ HeapTick

SpecHeap == InitHeap /\ [][NextHeap]_vars

----------------------------------------------------------------------------
(* bot.py: FitTrackBot, its handlers and user_data *)

\* obj.name: an attribute the object does not have is an AttributeError
GetAttr(obj, name) ==
    IF name \in DOMAIN obj.fields THEN obj.fields[name] ELSE PyError("AttributeError")

\* The text of _format_user_profile_response and of _format_profile_info: the
\* body-mass index and its category first, then the f-string, which reads
\* profile.gender, profile.age, ...
format_profile(profile, text) ==
    LET category == get_bmi_category(profile)
        read == [n \in {"gender", "age", "height", "weight", "goal", "activity_type"}
                    |-> GetAttr(profile, n)]
    IN  IF IsError(category) THEN category
        ELSE IF \E n \in DOMAIN read : IsError(read[n]) THEN PyError("AttributeError")
        ELSE [text |-> text, shown |-> read, category |-> category]

\* _create_response_for_object: the response and user_data after it.  The
\* profile is stored before the response is formatted; an exception raised while
\* formatting is caught and the plain response returned.
create_response_for_object(data, obj, user_id) ==
    IF obj.cls = "UserProfile"
    THEN LET stored == (user_id :> [profile |-> obj])
                       @@ [u \in DOMAIN data \ {user_id} |-> data[u]]
             response == format_profile(obj, "profile_created")
         IN  [user_data |-> stored,
              response |-> IF IsError(response) THEN [text |-> "object_created"]
                           ELSE response]
    ELSE IF obj.cls = "Exercise"
    THEN [user_data |-> data,
          response |-> IF IsError(calculate_volume(obj)) THEN [text |-> "object_created"]
                       ELSE [text |-> "exercise_created"]]
    ELSE IF obj.cls = "Workout"
    THEN [user_data |-> data,
          response |-> IF IsError(get_exercise_count(obj)) THEN [text |-> "object_created"]
                       ELSE [text |-> "workout_created",
                             count |-> get_exercise_count(obj)]]
    ELSE [user_data |-> data, response |-> [text |-> "goal_created"]]

\* The except clauses of _handle_object_creation, and the response for the
\* object when create_object_from_string has returned one.
respond_to_created(data, user_id, created_object) ==
    IF Catches("ParseError", created_object)
    THEN [user_data |-> data, response |-> [text |-> "parse_error"]]
    ELSE IF Catches("ValidationError", created_object)
    THEN [user_data |-> data, response |-> [text |-> "validation_error"]]
    ELSE IF Catches("Exception", created_object)
    THEN [user_data |-> data, response |-> [text |-> "unexpected_error"]]
    ELSE create_response_for_object(data, created_object, user_id)

\* _handle_object_creation: the response and user_data after the message
handle_object_creation(data, user_id, user_input, now) ==
    respond_to_created(data, user_id, create_object_from_string(user_input, now))

\* if user_id not in self.user_data or 'profile' not in self.user_data[user_id]
HasNoProfile(data, user_id) ==
    \/ user_id \notin DOMAIN data
    \/ "profile" \notin DOMAIN data[user_id]

\* _handle_profile: the response
handle_profile(data, user_id) ==
    IF HasNoProfile(data, user_id) THEN [text |-> "no_profile_yet"]
    ELSE LET response == format_profile(data[user_id]["profile"], "profile_info")
         IN  IF IsError(response) THEN [text |-> "profile_failed"] ELSE response

\* _handle_bmi: the response
handle_bmi(data, user_id) ==
    IF HasNoProfile(data, user_id) THEN [text |-> "no_profile_yet"]
    ELSE LET category == get_bmi_category(data[user_id]["profile"])
         IN  IF IsError(category) THEN [text |-> "bmi_failed"]
             ELSE [text |-> "bmi_info", category |-> category]

\* the users who write to the bot
Users == {101, 102, 103}

\* the line the bot shows as the format of a profile
ShownProfileLine ==
    "UserProfile gender \"muzhskoy\" age 25 height 180.5 weight 75.0 goal \"pohudenie\" activity_type \"srednyaya\""

\* the text messages the users send
BotLines ==
    { ShownProfileLine,
      "UserProfile pol \"muzhskoy\" vozrast 25 rost 180.5 ves 75.0 tsel \"pohudenie\" aktivnost \"srednyaya\"",
      "UserProfile gender \"muzhskoy\" age 150 height 180.5 weight 75.0 goal \"pohudenie\" activity_type \"srednyaya\"",
      "UserProfile gender \"muzhskoy\" age 25",
      "Exercise name \"Prisedaniya\" sets 4 reps_per_set 10 weight 60.0",
      "Exercise name \"Prisedaniya\" sets 21 reps_per_set 10 weight 60.0",
      "Workout date 2025.12.15 duration 01:30",
      "Workout date 2025.12.14 duration 01:30 exercises 5",
      "NutritionGoal goal_type \"pohudenie\" calories 1800.0 protein 120.0 fat 50.0 carbs 180.0",
      "privet" }

\* The bot has just been built: user_data is empty.  memo is the set of the
\* users who have sent the line the bot shows.
InitBot ==
    /\ today = Today0
    /\ pc = "idle"
    /\ last = NoCall
    /\ memo = {}
    /\ objects = <<>>
    /\ user_data = <<>>

\* the update is handled: the reply is sent, user_data is as the handler left it
Handled(user_id, user_input, handled) ==
    /\ user_data' = handled.user_data
    /\ last' = [op |-> "message", user |-> user_id, text |-> user_input,
                reply |-> handled.response]
    /\ memo' = IF user_input = ShownProfileLine THEN memo \cup {user_id} ELSE memo
    /\ UNCHANGED <<today, pc, objects>>

\* a text message that is no command
HandleObjectCreation ==
    \E user_id \in Users : \E user_input \in BotLines :
        Handled(user_id, user_input,
                handle_object_creation(user_data, user_id, user_input, today))

\* the command /profile
HandleProfile ==
    \E user_id \in Users :
        /\ last' = [op |-> "profile", user |-> user_id, text |-> "/profile",
                    reply |-> handle_profile(user_data, user_id)]
        /\ UNCHANGED <<today, pc, memo, objects, user_data>>

\* the command /bmi
HandleBmi ==
    \E user_id \in Users :
        /\ last' = [op |-> "bmi", user |-> user_id, text |-> "/bmi",
                    reply |-> handle_bmi(user_data, user_id)]
        /\ UNCHANGED <<today, pc, memo, objects, user_data>>

\* the date changes between two updates
BotTick ==
    /\ DateGt(AddDays(Today0, MaxTicks), today)
    /\ today' = NextDay(today)
    /\ UNCHANGED <<pc, last, memo, objects, user_data>>

NextBot ==
    \/ HandleObjectCreation
    \/ HandleProfile
    \/ HandleBmi
    \/ BotTick

SpecBot == InitBot /\ [][NextBot]_vars

----------------------------------------------------------------------------
(* Claims *)

\* a call of op has returned
Called(op) == pc = "done" /\ last.op = op

\* the operations that take a line
ParsingOps == {"parse_object", "create_object_from_string"}

\* the keys a kind requires
RequiredKeys(kind) ==
    {required_properties[kind][i][1] : i \in 1..Len(required_properties[kind])}

\* value is a number within lo..hi, bounds included
Between(value, lo, hi) == IsNumber(value) /\ InRange(value, lo, hi)

\* value is a text of the enumeration, whatever its letter case
InEnum(value, valid) == value.t = "str" /\ Lower(value.s) \in valid

\* The range and enumeration constraints of a kind on the field values f;
\* g is the name f has the gender under.
ConstraintsHold(cls, f, g, now) ==
    CASE cls = "UserProfile" ->
            /\ InEnum(f[g], {"muzhskoy", "zhenskiy"})
            /\ Between(f["age"], 1, 120)
            /\ Between(f["height"], 50, 250)
            /\ Between(f["weight"], 20, 300)
            /\ InEnum(f["goal"], {"pohudenie", "nabor massy", "podderzhanie formy",
                                  "relyef"})
            /\ InEnum(f["activity_type"], {"nizkaya", "srednyaya", "vysokaya",
                                           "ochen vysokaya"})
      [] cls = "Exercise" ->
            /\ Between(f["sets"], 1, 20)
            /\ Between(f["reps_per_set"], 1, 100)
            /\ Between(f["weight"], 0, 1000)
      [] cls = "Workout" ->
            /\ f["date"].t = "date"
            /\ ~DateGt(f["date"], now)
      [] cls = "NutritionGoal" ->
            /\ InEnum(f["goal_type"], {"pohudenie", "podderzhanie", "nabor massy"})
            /\ Between(f["calories"], 500, 5000)
            /\ Between(f["protein"], 0, 500)
            /\ Between(f["fat"], 0, 200)
            /\ Between(f["carbs"], 0, 1000)

\* C1: a line of a known kind that gives exactly the required keys, each with a
\* value of the expected type (and within its range), makes
\* create_object_from_string return a record of that kind whose fields are the
\* values written in the line.
C1_ValidLineGivesRecord ==
    Called("create_object_from_string") =>
        LET d == parse_object(last.arg)
        IN  ( /\ ~IsError(d)
              /\ d.type \in OBJECT_CLASSES
              /\ DOMAIN d.properties = RequiredKeys(d.type)
              /\ ConstraintsHold(d.type, d.properties, "gender", last.now) )
            => /\ last.out.kind = "record"
               /\ last.out.cls = d.type
               /\ \A k \in DOMAIN d.properties :
                     /\ k \in DOMAIN last.out.fields
                     /\ last.out.fields[k] = d.properties[k]

\* C2: a UserProfile line with the six required properties, rightly typed, and
\* an age outside 1..120 makes create_object_from_string raise ValidationError.
C2_AgeOutOfRangeIsValidationError ==
    Called("create_object_from_string") =>
        LET d == parse_object(last.arg)
        IN  ( /\ ~IsError(d)
              /\ d.type = "UserProfile"
              /\ ~Between(d.properties["age"], 1, 120) )
            => IsValidationError(last.out)

\* C3: a line with an even number of tokens makes parse_object and
\* create_object_from_string raise ParseError, whatever the tokens are.
C3_EvenCountIsParseError ==
    (pc = "done" /\ last.op \in ParsingOps) =>
        LET tk == tokenize_string(last.arg)
        IN  (~IsError(tk) /\ Len(tk.tokens) % 2 = 0) => IsParseError(last.out)

C3_Witness ==
    /\ Called("create_object_from_string")
    /\ ~IsError(tokenize_string(last.arg))
    /\ Len(tokenize_string(last.arg).tokens) >= 4
    /\ Len(tokenize_string(last.arg).tokens) % 2 = 0
    /\ IsParseError(last.out)

\* the positions of the keys in a tokenized line: 2, 4, ...
KeyPositions(tokens) == {i \in 2..Len(tokens) : i % 2 = 0}

\* the key at position j translates to the canonical key of an earlier key
Repeats(tokens, j) ==
    \E i \in KeyPositions(tokens) :
        i < j /\ translate_key(tokens[i]) = translate_key(tokens[j])

HasDuplicate(tokens) == \E j \in KeyPositions(tokens) : Repeats(tokens, j)

\* the first key that repeats an earlier one has every value before it well formed
CleanUpToDuplicate(tokens) ==
    LET first == CHOOSE j \in KeyPositions(tokens) :
                    /\ Repeats(tokens, j)
                    /\ \A k \in KeyPositions(tokens) : Repeats(tokens, k) => j <= k
    IN  \A k \in KeyPositions(tokens) :
            k < first => ~IsError(parse_value(tokens[k + 1]))

\* C4 as stated: whenever two keys of a line translate to the same canonical
\* key, parse_object raises a ParseError that reports a duplicate property.
C4_DuplicateAlwaysReported ==
    Called("parse_object") =>
        LET tk == tokenize_string(last.arg)
        IN  (~IsError(tk) /\ HasDuplicate(tk.tokens))
            => (IsParseError(last.out) /\ last.out.msg = "duplicate")

\* C4 amended: whenever two keys of a line translate to the same canonical
\* key, parse_object raises ParseError and returns no descriptor; the error is
\* the duplicate-property one when the token count is odd and every value
\* before the first repeated key is well formed (an earlier defect is reported
\* instead: the token count first, then the pairs from left to right).
C4_DuplicateIsParseError ==
    Called("parse_object") =>
        LET tk == tokenize_string(last.arg)
        IN  (~IsError(tk) /\ HasDuplicate(tk.tokens))
            => /\ IsParseError(last.out)
               /\ (Len(tk.tokens) % 2 = 1 /\ CleanUpToDuplicate(tk.tokens))
                    => last.out.msg = "duplicate"

\* two different spellings of one canonical key, reported as a duplicate
C4_Witness ==
    /\ Called("parse_object")
    /\ ~IsError(tokenize_string(last.arg))
    /\ LET tokens == tokenize_string(last.arg).tokens
       IN  \E i, j \in KeyPositions(tokens) :
              /\ i < j
              /\ tokens[i] # tokens[j]
              /\ translate_key(tokens[i]) = translate_key(tokens[j])
    /\ IsParseError(last.out)
    /\ last.out.msg = "duplicate"

\* the four kind names, letter for letter
KnownKinds == {"UserProfile", "Exercise", "Workout", "NutritionGoal"}

\* the pairs after the kind are well formed: at least one pair, no key without
\* a value, every value well formed, no canonical key twice
WellFormedPairs(tokens) ==
    /\ Len(tokens) >= 3
    /\ Len(tokens) % 2 = 1
    /\ \A k \in KeyPositions(tokens) : ~IsError(parse_value(tokens[k + 1]))
    /\ ~HasDuplicate(tokens)

\* C5: the kind token is compared verbatim and case-sensitively. For a line
\* whose kind is not exactly one of the four names and whose pairs are well
\* formed, parse_object returns the descriptor (kind stored verbatim, no schema
\* check) and never raises the unknown-kind error; create_object, and so
\* create_object_from_string, raises it.
C5_UnknownKindFailsAtCreation ==
    /\ Called("parse_object") =>
          /\ ~(IsError(last.out) /\ last.out.msg = "unknown_kind")
          /\ LET tk == tokenize_string(last.arg)
             IN  ( /\ ~IsError(tk)
                   /\ WellFormedPairs(tk.tokens)
                   /\ tk.tokens[1] \notin KnownKinds )
                 => /\ last.out.kind = "descriptor"
                    /\ last.out.type = tk.tokens[1]
    /\ Called("create_object") =>
          (last.parsed.type \notin KnownKinds
              <=> (IsParseError(last.out) /\ last.out.msg = "unknown_kind"))
    /\ Called("create_object_from_string") =>
          LET tk == tokenize_string(last.arg)
          IN  ( /\ ~IsError(tk)
                /\ WellFormedPairs(tk.tokens)
                /\ tk.tokens[1] \notin KnownKinds )
              => (IsParseError(last.out) /\ last.out.msg = "unknown_kind")

\* a kind that differs from a known one by letter case only, refused by
\* create_object after parse_object has returned its descriptor
C5_Witness ==
    /\ Called("create_object")
    /\ last.parsed.kind = "descriptor"
    /\ last.parsed.type = "userprofile"
    /\ IsParseError(last.out)
    /\ last.out.msg = "unknown_kind"

\* 4 digits, dot, 2 digits, dot, 2 digits
DateShaped(s) ==
    /\ Len(s) = 10
    /\ \A i \in {1, 2, 3, 4, 6, 7, 9, 10} : IsDigit(CharAt(s, i))
    /\ CharAt(s, 5) = "." /\ CharAt(s, 8) = "."

\* 2 digits, colon, 2 digits
TimeShaped(s) ==
    /\ Len(s) = 5
    /\ \A i \in {1, 2, 4, 5} : IsDigit(CharAt(s, i))
    /\ CharAt(s, 3) = ":"

\* the number the two digits from position i on write
TwoDigits(s, i) == 10 * DigitVal(CharAt(s, i)) + DigitVal(CharAt(s, i + 1))

FourDigits(s, i) == 100 * TwoDigits(s, i) + TwoDigits(s, i + 2)

\* day d of month m of year y is a day of the calendar (years from 1 on)
CalendarDay(y, m, d) ==
    /\ y >= 1
    /\ m \in 1..12
    /\ d >= 1
    /\ d <= (IF m \in {4, 6, 9, 11} THEN 30
             ELSE IF m # 2 THEN 31
             ELSE IF (y % 4 = 0 /\ y % 100 # 0) \/ y % 400 = 0 THEN 29
             ELSE 28)

\* C7: parse_value on a token of the date shape returns the date its digits
\* write when that is a calendar date and raises ParseError when it is not; on a
\* token of the time shape it returns the time of day its digits write when the
\* hour is at most 23 and the minute at most 59 and raises ParseError
\* otherwise.  Such a token never comes out as an integer, a float or a text.
C7_DateTimeTokens ==
    Called("parse_value") =>
        LET s == last.arg
            out == last.out
        IN  /\ DateShaped(s) =>
                LET y == FourDigits(s, 1)
                    m == TwoDigits(s, 6)
                    d == TwoDigits(s, 9)
                IN  IF CalendarDay(y, m, d)
                    THEN out = [t |-> "date", y |-> y, mo |-> m, d |-> d]
                    ELSE IsParseError(out)
            /\ TimeShaped(s) =>
                LET h  == TwoDigits(s, 1)
                    mi == TwoDigits(s, 4)
                IN  IF h <= 23 /\ mi <= 59
                    THEN ~IsError(out) /\ out.t = "time" /\ out = TimeVal(h, mi)
                    ELSE IsParseError(out)

\* the date token with month 13 and day 45 is refused
C7_Witness ==
    /\ Called("parse_value")
    /\ last.arg = "2025.13.45"
    /\ IsParseError(last.out)

\* the elements of a sequence
Range(seq) == {seq[i] : i \in 1..Len(seq)}

\* the value the line gives under the canonical key name (tokens hold no
\* canonical key twice)
GivenValue(tokens, name) ==
    LET k == CHOOSE i \in KeyPositions(tokens) : translate_key(tokens[i]) = name
    IN  parse_value(tokens[k + 1])

Gives(tokens, name) ==
    \E i \in KeyPositions(tokens) : translate_key(tokens[i]) = name

\* the required keys of the kind the line does not give
MissingKeys(tokens) ==
    {p[1] : p \in {q \in Range(required_properties[tokens[1]]) : ~Gives(tokens, q[1])}}

\* the required keys of the kind the line gives with a value of another type,
\* each with the type expected and the type given
MistypedKeys(tokens) ==
    {[name |-> p[1], expected |-> p[2], actual |-> GivenValue(tokens, p[1]).t] :
        p \in {q \in Range(required_properties[tokens[1]]) :
                  Gives(tokens, q[1]) /\ GivenValue(tokens, q[1]).t # q[2]}}

\* C8: for a line of a known kind with well-formed pairs, parse_object returns
\* the descriptor exactly when no required key is missing and none has a value
\* of the wrong type; otherwise it raises one ParseError that names every
\* missing required key and every mistyped required key (with the expected and
\* the actual type), each once.
C8_SchemaErrorsInBatch ==
    Called("parse_object") =>
        LET tk == tokenize_string(last.arg)
        IN  ( /\ ~IsError(tk)
              /\ WellFormedPairs(tk.tokens)
              /\ tk.tokens[1] \in KnownKinds )
            => IF MissingKeys(tk.tokens) = {} /\ MistypedKeys(tk.tokens) = {}
               THEN last.out.kind = "descriptor"
               ELSE /\ IsParseError(last.out)
                    /\ last.out.msg = "schema"
                    /\ Range(last.out.missing) = MissingKeys(tk.tokens)
                    /\ Len(last.out.missing) = Cardinality(MissingKeys(tk.tokens))
                    /\ Range(last.out.type_errors) = MistypedKeys(tk.tokens)
                    /\ Len(last.out.type_errors) = Cardinality(MistypedKeys(tk.tokens))

\* one error that names a missing key and a mistyped key together
C8_Witness ==
    /\ Called("parse_object")
    /\ IsParseError(last.out)
    /\ last.out.msg = "schema"
    /\ Len(last.out.missing) >= 1
    /\ Len(last.out.type_errors) >= 1
    /\ Len(last.out.missing) + Len(last.out.type_errors) >= 3

\* the operations that can return a record
RecordOps == {"construct", "create_object", "create_object_from_string"}

\* the fields of a kind that hold numbers, and those that hold an enumerated text
NumericFields(cls) ==
    CASE cls = "UserProfile"   -> {"age", "height", "weight"}
      [] cls = "Exercise"      -> {"sets", "reps_per_set", "weight"}
      [] cls = "Workout"       -> {}
      [] cls = "NutritionGoal" -> {"calories", "protein", "fat", "carbs"}

EnumFields(cls) ==
    CASE cls = "UserProfile"   -> {"pol", "goal", "activity_type"}
      [] cls = "Exercise"      -> {}
      [] cls = "Workout"       -> {}
      [] cls = "NutritionGoal" -> {"goal_type"}

\* the arguments have the types the fields are declared with
WellTyped(cls, kwargs) ==
    /\ \A n \in NumericFields(cls) : IsNumber(kwargs[n])
    /\ \A n \in EnumFields(cls) : kwargs[n].t = "str"
    /\ cls = "Workout" => kwargs["date"].t = "date"

TwoCallsOnOneLine ==
    /\ memo.op = "create_object_from_string"
    /\ last.op = "create_object_from_string"
    /\ memo.arg = last.arg

ListOf(rec, n) ==
    IF n \in DOMAIN rec.fields /\ rec.fields[n].t = "list"
    THEN rec.fields[n].items ELSE <<>>

\* rec is as before, or is the Workout before with one more exercise at the
\* end of its list
SameOrOneMoreExercise(before, rec) ==
    \/ rec = before
    \/ /\ before.cls = "Workout"
       /\ rec.cls = "Workout"
       /\ DOMAIN rec.fields = DOMAIN before.fields
       /\ \A n \in DOMAIN before.fields \ {"exercises"} :
             rec.fields[n] = before.fields[n]
       /\ before.fields["exercises"].t = "list"
       /\ rec.fields["exercises"].t = "list"
       /\ \E e \in DOMAIN objects :
             rec.fields["exercises"].items
                = Append(before.fields["exercises"].items, e)

\* every record held satisfies the constraints of its kind
RecordsValid ==
    \A a \in DOMAIN objects :
        ConstraintsHold(objects[a].cls, objects[a].fields, "pol", today)

\* no step takes a record away or changes one, but for one exercise more at the
\* end of a Workout's list
RecordsKept ==
    /\ Len(objects') >= Len(objects)
    /\ \A a \in DOMAIN objects : SameOrOneMoreExercise(objects[a], objects'[a])

\* C10: records are immutable after construction.  In every state every record
\* held satisfies the range and enumeration constraints of its kind, and every
\* step leaves every record held with the field values it has, the one change
\* being an exercise appended at the end of a Workout's list by add_exercise,
\* so that the list only grows and keeps its order.
C10_RecordsImmutable == []RecordsValid /\ [][RecordsKept]_vars

\* a Workout that has had two exercises appended, other records beside it
C10_Witness ==
    \E w \in DOMAIN objects :
        /\ objects[w].cls = "Workout"
        /\ Len(ListOf(objects[w], "exercises")) >= 2
        /\ Len(objects) >= 2

\* a line of a known kind with well-formed pairs that breaks the schema: a
\* required key is missing or has a value of the wrong type
BreaksSchema(tokens) ==
    /\ WellFormedPairs(tokens)
    /\ tokens[1] \in KnownKinds
    /\ (MissingKeys(tokens) # {} \/ MistypedKeys(tokens) # {})

\* the line gives the key name with a number outside lo..hi
GivenOutside(tokens, name, lo, hi) ==
    /\ Gives(tokens, name)
    /\ IsNumber(GivenValue(tokens, name))
    /\ ~InRange(GivenValue(tokens, name), lo, hi)

\* C11: semantic errors come from the constructor only.  parse_object never
\* raises ValidationError; create_object_from_string raises ValidationError
\* only for a line that parse_object turns into a descriptor (tokenized,
\* assembled and, for a known kind, with no required key missing or mistyped);
\* a line that breaks the schema is rejected with ParseError, also when one of
\* its values is out of range.
C11_ValidationErrorOnlyFromConstructor ==
    /\ Called("parse_object") => ~IsValidationError(last.out)
    /\ Called("create_object_from_string") =>
          LET tk == tokenize_string(last.arg)
          IN  /\ IsValidationError(last.out) =>
                    /\ ~IsError(tk)
                    /\ WellFormedPairs(tk.tokens)
                    /\ tk.tokens[1] \in KnownKinds
                    /\ MissingKeys(tk.tokens) = {}
                    /\ MistypedKeys(tk.tokens) = {}
              /\ (~IsError(tk) /\ BreaksSchema(tk.tokens)) => IsParseError(last.out)

\* an Exercise line with sets out of range and the weight missing or mistyped,
\* rejected with ParseError
C11_Witness ==
    /\ Called("create_object_from_string")
    /\ ~IsError(tokenize_string(last.arg))
    /\ tokenize_string(last.arg).tokens[1] = "Exercise"
    /\ BreaksSchema(tokenize_string(last.arg).tokens)
    /\ GivenOutside(tokenize_string(last.arg).tokens, "sets", 1, 20)
    /\ IsParseError(last.out)

\* C12: a line of two tokens, a kind and one key with no value, is rejected by
\* parse_object with the ParseError whose message is the unpaired key/value one.
C12_TwoTokensIsUnpaired ==
    Called("parse_object") =>
        LET tk == tokenize_string(last.arg)
        IN  (~IsError(tk) /\ Len(tk.tokens) = 2)
            => (IsParseError(last.out) /\ last.out.msg = "unpaired")

\* C13: for a line of a known kind with well-formed pairs that misses a
\* required property or gives one with a value of the wrong type, parse_object
\* returns the descriptor holding the kind and the parsed values (the schema
\* error being left to create_object).
C13_PartialLineGivesDescriptor ==
    Called("parse_object") =>
        LET tk == tokenize_string(last.arg)
        IN  (~IsError(tk) /\ BreaksSchema(tk.tokens))
            => /\ last.out.kind = "descriptor"
               /\ last.out.type = tk.tokens[1]
               /\ \A i \in KeyPositions(tk.tokens) :
                     /\ translate_key(tk.tokens[i]) \in DOMAIN last.out.properties
                     /\ last.out.properties[translate_key(tk.tokens[i])]
                           = parse_value(tk.tokens[i + 1])

\* the positions of the double quotes of s before position i
QuotesBefore(s, i) == Cardinality({j \in 1..(i - 1) : CharAt(s, j) = "\""})

QuoteCount(s) == QuotesBefore(s, Len(s) + 1)

\* s holds nothing but spaces and tabs
OnlyWhitespace(s) == \A i \in 1..Len(s) : CharAt(s, i) \in {" ", "\t"}

\* C14: _tokenize_string raises the empty-input error exactly for a line that
\* is empty or only whitespace, the unclosed-quotes error exactly for another
\* line with an odd number of double quotes, and returns at least one token
\* for every other line.
C14_TokenizerErrors ==
    Called("tokenize_string") =>
        IF OnlyWhitespace(last.arg)
        THEN IsParseError(last.out) /\ last.out.msg = "empty"
        ELSE IF QuoteCount(last.arg) % 2 = 1
        THEN IsParseError(last.out) /\ last.out.msg = "unclosed_quotes"
        ELSE last.out.kind = "tokens" /\ Len(last.out.tokens) >= 1

\* a line with a quote left open is refused
C14_Witness ==
    /\ Called("tokenize_string")
    /\ QuoteCount(last.arg) % 2 = 1
    /\ IsParseError(last.out)
    /\ last.out.msg = "unclosed_quotes"

\* the character at position i of s is a space outside quotes
OutsideSpace(s, i) == CharAt(s, i) = " " /\ QuotesBefore(s, i) % 2 = 0

\* s from lo to hi without its spaces outside quotes
RECURSIVE StripRange(_, _, _)
StripRange(s, lo, hi) ==
    IF lo > hi THEN ""
    ELSE IF lo = hi THEN (IF OutsideSpace(s, lo) THEN "" ELSE CharAt(s, lo))
    ELSE LET mid == (lo + hi) \div 2
         IN  StripRange(s, lo, mid) \o StripRange(s, mid + 1, hi)

\* the tokens from the i-th on, one after the other
RECURSIVE Joined(_, _)
Joined(tokens, i) ==
    IF i > Len(tokens) THEN "" ELSE tokens[i] \o Joined(tokens, i + 1)

\* C15: for a line _tokenize_string accepts, no token is empty, every token
\* holds an even number of double quotes, a space stands in a token only
\* between an opening and a closing quote, and the tokens one after the other
\* are the line without its spaces outside quotes (the quotes are kept).
C15_TokensAreTheLine ==
    (Called("tokenize_string") /\ ~IsError(last.out)) =>
        LET tokens == last.out.tokens
        IN  /\ \A k \in 1..Len(tokens) :
                  /\ tokens[k] # ""
                  /\ QuoteCount(tokens[k]) % 2 = 0
                  /\ \A j \in 1..Len(tokens[k]) :
                        CharAt(tokens[k], j) = " " => QuotesBefore(tokens[k], j) % 2 = 1
            /\ Joined(tokens, 1) = StripRange(last.arg, 1, Len(last.arg))

\* a line with runs of spaces outside quotes and spaces inside quotes
C15_Witness ==
    /\ Called("tokenize_string")
    /\ last.arg = "  Exercise   name \"Zhim  lezha\"  sets 3 reps_per_set 8   weight 67.5 "
    /\ last.out.kind = "tokens"
    /\ Len(last.out.tokens) = 9
    /\ last.out.tokens[3] = "\"Zhim  lezha\""

\* the key in lower case, its spaces replaced by the separator
Normalized(key) == ReplaceSpaces(Lower(key))

\* C16: _translate_key returns the normalized key when the normalized key is
\* not in the alias table, so that keys that differ in letter case only
\* translate to the same key.
C16_MissReturnsNormalizedKey ==
    Called("translate_key") =>
        (Normalized(last.arg) \notin DOMAIN RUSSIAN_TO_ENGLISH_MAP
            => last.out = Normalized(last.arg))

\* a date written with other separators than the two dots: 4 digits, 2 digits
\* and 2 digits with a dash, a slash or a dot between them
DateLikeOtherFormat(s) ==
    /\ Len(s) = 10
    /\ \A i \in {1, 2, 3, 4, 6, 7, 9, 10} : IsDigit(CharAt(s, i))
    /\ CharAt(s, 5) \in {"-", "/", "."}
    /\ CharAt(s, 8) \in {"-", "/", "."}
    /\ ~DateShaped(s)

\* C17: parse_value raises ParseError for a date-like token that is not
\* written as yyyy.mm.dd, such as 2025-12-15, and returns no value for it.
C17_OtherDateFormatIsParseError ==
    Called("parse_value") =>
        (DateLikeOtherFormat(last.arg) => IsParseError(last.out))

\* the canonical names of the properties of a UserProfile
ProfileNames == {"gender", "age", "height", "weight", "goal", "activity_type"}

\* C18: a UserProfile constructed with the six canonical names gender, age,
\* height, weight, goal, activity_type and values within their ranges and
\* enumerations is a record that holds the values given under these names.
C18_ProfileFromCanonicalNames ==
    ( /\ Called("construct")
      /\ last.arg.cls = "UserProfile"
      /\ DOMAIN last.arg.kwargs = ProfileNames
      /\ ConstraintsHold("UserProfile", last.arg.kwargs, "gender", last.now) )
    => /\ last.out.kind = "record"
       /\ last.out.cls = "UserProfile"
       /\ \A n \in ProfileNames :
             /\ n \in DOMAIN last.out.fields
             /\ last.out.fields[n] = last.arg.kwargs[n]

\* the days of a date counted so that a later date has a greater number
DayNumber(date) == 10000 * date.y + 100 * date.mo + date.d

\* the names of the fields of a Workout
WorkoutNames == {"date", "duration", "exercises", "notes"}

\* C19: a Workout constructed with date d when the current date is T is a
\* record if d <= T, today's date included, and is refused with
\* ValidationError if d is later than T; T is the date at the call.  The same
\* holds for a Workout line given to create_object_from_string.
C19_WorkoutDateNotInFuture ==
    /\ ( /\ Called("construct")
         /\ last.arg.cls = "Workout"
         /\ {"date", "duration"} \subseteq DOMAIN last.arg.kwargs
         /\ DOMAIN last.arg.kwargs \subseteq WorkoutNames
         /\ last.arg.kwargs["date"].t = "date" )
       => IF DayNumber(last.arg.kwargs["date"]) <= DayNumber(last.now)
          THEN /\ last.out.kind = "record"
               /\ last.out.fields["date"] = last.arg.kwargs["date"]
          ELSE IsValidationError(last.out) /\ last.out.msg = "date_in_future"
    /\ Called("create_object_from_string") =>
          LET d == parse_object(last.arg)
          IN  ( /\ ~IsError(d)
                /\ d.type = "Workout"
                /\ DOMAIN d.properties \subseteq WorkoutNames )
              => IF DayNumber(d.properties["date"]) <= DayNumber(last.now)
                 THEN /\ last.out.kind = "record"
                      /\ last.out.fields["date"] = d.properties["date"]
                 ELSE IsValidationError(last.out) /\ last.out.msg = "date_in_future"

\* a Workout of today's date, after the date has changed
C19_Witness ==
    /\ Called("construct")
    /\ last.arg.cls = "Workout"
    /\ "date" \in DOMAIN last.arg.kwargs
    /\ last.arg.kwargs["date"] = last.now
    /\ last.now # Today0
    /\ last.out.kind = "record"

\* the object at address w is a Workout that holds a list of exercises, as one
\* constructed without exercises does
HasList(w) ==
    /\ objects[w].cls = "Workout"
    /\ objects[w].fields["exercises"].t = "list"

\* the exercises the add_exercise calls on w have been given, in call order
AppendedTo(w) ==
    LET OnW(c) == c.w = w
        calls == SelectSeq(memo, OnW)
    IN  [k \in 1..Len(calls) |-> calls[k].e]

\* a number with at most one decimal, in tenths
Tenths(v) == IF v.t = "int" THEN 10 * v.i ELSE v.mant * Pow10(1 - v.exp)

\* sets x reps_per_set x weight of the Exercise at address e, in tenths
VolumeTenths(e) ==
    objects[e].fields["sets"].i * objects[e].fields["reps_per_set"].i
        * Tenths(objects[e].fields["weight"])

RECURSIVE SumTenths(_, _)
SumTenths(es, i) ==
    IF i > Len(es) THEN 0 ELSE VolumeTenths(es[i]) + SumTenths(es, i + 1)

\* what the methods of a Workout return agrees with the add_exercise calls made
\* on it
WorkoutCountsCalls ==
    /\ \A w \in DOMAIN objects :
          HasList(w) => objects[w].fields["exercises"].items = AppendedTo(w)
    /\ (last.op = "get_exercise_count" /\ HasList(last.w)) =>
          last.out = IntVal(Len(AppendedTo(last.w)))
    /\ ( /\ last.op = "calculate_total_volume"
         /\ HasList(last.w)
         /\ \A k \in 1..Len(AppendedTo(last.w)) :
               objects[AppendedTo(last.w)[k]].cls = "Exercise" )
       => /\ ~IsError(last.out)
          /\ IsNumber(last.out)
          /\ Tenths(last.out) = SumTenths(AppendedTo(last.w), 1)

\* a call of add_exercise that returns raises the count of its workout by one
EachCallAddsOne ==
    memo' # memo =>
        LET c == memo'[Len(memo')]
        IN  /\ Len(memo') = Len(memo) + 1
            /\ get_exercise_count(objects'[c.w])
                  = IntVal(get_exercise_count(objects[c.w]).i + 1)

\* C20: for a Workout constructed without exercises, after n calls of
\* add_exercise the list holds the exercises given in call order,
\* get_exercise_count returns n and calculate_total_volume returns the sum of
\* sets x reps_per_set x weight over them (0 when n = 0); each call raises the
\* count by exactly one.
C20_CountAndVolumeFollowCalls == []WorkoutCountsCalls /\ [][EachCallAddsOne]_vars

\* the volume of a Workout after two calls of add_exercise
C20_Witness ==
    /\ last.op = "calculate_total_volume"
    /\ HasList(last.w)
    /\ Len(AppendedTo(last.w)) = 2
    /\ \A k \in 1..2 : objects[AppendedTo(last.w)[k]].cls = "Exercise"
    /\ IsNumber(last.out)
    /\ Tenths(last.out) > 0

\* the addresses of the Exercise records held
ExerciseRecords == {e \in DOMAIN objects : objects[e].cls = "Exercise"}

\* the addresses the list of the Workout at w holds
HeldBy(w) ==
    IF HasList(w) THEN Range(objects[w].fields["exercises"].items) ELSE {}

\* every Exercise record is in the list of exactly one Workout
ExclusivelyOwned ==
    \A e \in ExerciseRecords :
        /\ \E w \in DOMAIN objects : e \in HeldBy(w)
        /\ \A w1, w2 \in DOMAIN objects :
              (e \in HeldBy(w1) /\ e \in HeldBy(w2)) => w1 = w2

\* a call of add_exercise changes the list of one Workout only
OneListChanged ==
    memo' # memo =>
        \A w \in DOMAIN objects :
            w # memo'[Len(memo')].w => objects'[w] = objects[w]

\* C21: a Workout exclusively owns its exercises.  In every state no Exercise
\* record is in the lists of two different Workouts and every Exercise record
\* held is in the list of a Workout; a call of add_exercise on one Workout
\* leaves the list of every other Workout as it is.
C21_WorkoutOwnsItsExercises == []ExclusivelyOwned /\ [][OneListChanged]_vars

\* the body-mass index of a profile is below n / d: weight and height taken in
\* tenths, weight / (height / 100)^2 = 100000 * wT / hT^2
BmiBelow(profile, n, d) ==
    LET wT == Tenths(profile.fields["weight"])
        hT == Tenths(profile.fields["height"])
    IN  100000 * wT * d < n * hT * hT

BmiBands ==
    { StrVal("Nedostatochnyy ves"), StrVal("Normalnyy ves"),
      StrVal("Izbytochnyy ves"), StrVal("Ozhirenie") }

\* C22: get_bmi_category puts every body-mass index into exactly one of the
\* four bands: underweight when BMI < 18.5, normal when 18.5 <= BMI < 25,
\* overweight when 25 <= BMI < 30, obese when BMI >= 30; 18.5, 25 and 30 are
\* in the upper band and no value is left without a band.
C22_BmiBands ==
    Called("get_bmi_category") =>
        /\ last.out \in BmiBands
        /\ last.out = StrVal("Nedostatochnyy ves") <=> BmiBelow(last.arg, 37, 2)
        /\ last.out = StrVal("Normalnyy ves")
              <=> (~BmiBelow(last.arg, 37, 2) /\ BmiBelow(last.arg, 25, 1))
        /\ last.out = StrVal("Izbytochnyy ves")
              <=> (~BmiBelow(last.arg, 25, 1) /\ BmiBelow(last.arg, 30, 1))
        /\ last.out = StrVal("Ozhirenie") <=> ~BmiBelow(last.arg, 30, 1)

\* a profile of 2 m and 100 kg: the index is 25, the band the upper one
C22_Witness ==
    /\ Called("get_bmi_category")
    /\ last.arg.fields["height"] = FloatVal(200, 0)
    /\ last.arg.fields["weight"] = FloatVal(100, 0)
    /\ last.out = StrVal("Izbytochnyy ves")

\* the line ends in a key that has no value: an even number of tokens
EndsInKey(tokens) == Len(tokens) >= 2 /\ Len(tokens) % 2 = 0

\* C23: the error parse_object raises for a line that ends in a key without a
\* value is a ValueError: "except ValueError" catches it.
C23_UnpairedKeyIsValueError ==
    Called("parse_object") =>
        LET tk == tokenize_string(last.arg)
        IN  (~IsError(tk) /\ EndsInKey(tk.tokens)) => Catches("ValueError", last.out)

\* C24: create_object_from_string is total over its error types.  For every
\* line it returns a record of one of the four kinds or raises ParseError or
\* ValidationError; no other exception (TypeError, AttributeError, KeyError,
\* ValueError) escapes it.
C24_OnlyParseOrValidationError ==
    Called("create_object_from_string") =>
        IF IsError(last.out)
        THEN /\ last.out.exc \in {"ParseError", "ValidationError"}
             /\ ~Catches("TypeError", last.out)
             /\ ~Catches("ValueError", last.out)
             /\ ~Catches("AttributeError", last.out)
             /\ ~Catches("KeyError", last.out)
        ELSE last.out.kind = "record" /\ last.out.cls \in KnownKinds

\* a line that parses, whose constructor call raises TypeError: the caller
\* gets a ParseError
C24_Witness ==
    /\ Called("create_object_from_string")
    /\ ~IsError(parse_object(last.arg))
    /\ parse_object(last.arg).type \in KnownKinds
    /\ Catches("TypeError", construct(parse_object(last.arg).type,
                                      parse_object(last.arg).properties, last.now))
    /\ IsParseError(last.out)

\* the pairs of a line with a defect: the key repeats an earlier one or the
\* value is malformed
BadPairs(tokens) ==
    {j \in KeyPositions(tokens) :
        Repeats(tokens, j) \/ IsError(parse_value(tokens[j + 1]))}

Least(S) == CHOOSE x \in S : \A y \in S : x <= y

\* the defect reported for the pair at j: the duplicate before the value
PairDefect(tokens, j) ==
    IF Repeats(tokens, j) THEN "duplicate" ELSE parse_value(tokens[j + 1]).msg

\* the limit of one field of a kind holds for the value v
FieldOk(cls, n, v, now) ==
    CASE cls = "UserProfile" /\ n = "pol" -> InEnum(v, {"muzhskoy", "zhenskiy"})
      [] cls = "UserProfile" /\ n = "age" -> Between(v, 1, 120)
      [] cls = "UserProfile" /\ n = "height" -> Between(v, 50, 250)
      [] cls = "UserProfile" /\ n = "weight" -> Between(v, 20, 300)
      [] cls = "UserProfile" /\ n = "goal" ->
            InEnum(v, {"pohudenie", "nabor massy", "podderzhanie formy", "relyef"})
      [] cls = "UserProfile" /\ n = "activity_type" ->
            InEnum(v, {"nizkaya", "srednyaya", "vysokaya", "ochen vysokaya"})
      [] cls = "Exercise" /\ n = "sets" -> Between(v, 1, 20)
      [] cls = "Exercise" /\ n = "reps_per_set" -> Between(v, 1, 100)
      [] cls = "Exercise" /\ n = "weight" -> Between(v, 0, 1000)
      [] cls = "Workout" /\ n = "date" -> DayNumber(v) <= DayNumber(now)
      [] cls = "NutritionGoal" /\ n = "goal_type" ->
            InEnum(v, {"pohudenie", "podderzhanie", "nabor massy"})
      [] cls = "NutritionGoal" /\ n = "calories" -> Between(v, 500, 5000)
      [] cls = "NutritionGoal" /\ n = "protein" -> Between(v, 0, 500)
      [] cls = "NutritionGoal" /\ n = "fat" -> Between(v, 0, 200)
      [] cls = "NutritionGoal" /\ n = "carbs" -> Between(v, 0, 1000)
      [] OTHER -> TRUE

\* the places, in declaration order, of the fields given outside their limits
BadFields(cls, kwargs, now) ==
    {i \in 1..Len(Fields[cls]) :
        /\ Fields[cls][i][1] \in DOMAIN kwargs
        /\ ~FieldOk(cls, Fields[cls][i][1], kwargs[Fields[cls][i][1]], now)}

\* what the error of a field is called
DefectName(cls, n) ==
    IF n = "pol" THEN "gender"
    ELSE IF cls = "Workout" /\ n = "date" THEN "date_in_future"
    ELSE n

\* out is what the constructor of cls gives for arguments that bind and have
\* the declared types: the error of the first field, in declaration order,
\* that is outside its limits, a record when there is none
FirstFieldReported(cls, kwargs, now, out) ==
    IF BadFields(cls, kwargs, now) = {} THEN out.kind = "record"
    ELSE /\ IsValidationError(out)
         /\ out.msg = DefectName(cls, Fields[cls][Least(BadFields(cls, kwargs, now))][1])

\* the arguments a line gives the constructor: its values under the canonical keys
GivenKwargs(tokens) ==
    [n \in {translate_key(tokens[j]) : j \in KeyPositions(tokens)} |->
        GivenValue(tokens, n)]

\* out is the ParseError with the message msg
IsParseErrorOf(out, msg) == IsParseError(out) /\ out.msg = msg

C26_ParsedWorkoutHasNoExercises ==
    ( /\ Called("create_object_from_string")
      /\ ~IsError(last.out)
      /\ last.out.cls = "Workout" )
    => /\ last.out.fields["exercises"] = ListVal(<<>>)
       /\ get_exercise_count(last.out) = IntVal(0)
       /\ calculate_total_volume(objects, last.out) = IntVal(0)

\* the profile of every user who has sent the shown line is stored, for these
\* users only, and their /profile and /bmi commands are answered with it
ProfileStoredAndShown ==
    /\ \A u \in memo :
          /\ u \in DOMAIN user_data
          /\ "profile" \in DOMAIN user_data[u]
          /\ user_data[u]["profile"].cls = "UserProfile"
    /\ DOMAIN user_data \subseteq memo
    /\ (last.op \in {"profile", "bmi"} /\ last.user \in memo) =>
          last.reply.text \in {"profile_info", "bmi_info"}

\* a message that is refused, and a message of another user, leave the stored
\* profile of a user as it is
ProfileKept ==
    \A u \in DOMAIN user_data :
        (last'.op = "message"
            /\ (last'.user # u
                \/ last'.reply.text \in {"parse_error", "validation_error",
                                         "unexpected_error"}))
        => (u \in DOMAIN user_data' /\ user_data'[u] = user_data[u])

\* C27: after a user has sent a valid UserProfile line in the format the bot
\* shows, the profile is stored in user_data for that user only and every
\* later /profile or /bmi of that user is answered with the profile data, not
\* with the prompt to create a profile; a message that fails to parse or to
\* validate, and a message of another user, leave the stored profile unchanged.
C27_ProfileStoredForUser == []ProfileStoredAndShown /\ [][ProfileKept]_vars

DeclaredKeys(kind) ==
    CASE kind = "UserProfile"   -> ProfileNames
      [] kind = "Exercise"      -> {"name", "sets", "reps_per_set", "weight", "notes"}
      [] kind = "Workout"       -> WorkoutNames
      [] kind = "NutritionGoal" -> {"goal_type", "calories", "protein", "fat", "carbs"}

\* the canonical keys of a line that its kind does not declare
UndeclaredKeys(tokens) ==
    {translate_key(tokens[j]) : j \in KeyPositions(tokens)} \ DeclaredKeys(tokens[1])

\* C29: a line of a known kind that satisfies the schema and carries a key the
\* kind does not declare makes create_object_from_string raise ParseError; no
\* record is returned, so the undeclared property is neither dropped nor
\* stored.  No record returned holds a field its kind does not declare.
C29_UndeclaredKeyIsParseError ==
    Called("create_object_from_string") =>
        /\ LET tk == tokenize_string(last.arg)
           IN  ( /\ ~IsError(tk)
                 /\ WellFormedPairs(tk.tokens)
                 /\ tk.tokens[1] \in KnownKinds
                 /\ MissingKeys(tk.tokens) = {}
                 /\ MistypedKeys(tk.tokens) = {}
                 /\ UndeclaredKeys(tk.tokens) # {} )
               => IsParseError(last.out)
        /\ ~IsError(last.out) => DOMAIN last.out.fields \subseteq DeclaredKeys(last.out.cls)

\* an Exercise line with its four properties within their limits and one key
\* more that Exercise does not declare
C29_Witness ==
    /\ Called("create_object_from_string")
    /\ ~IsError(tokenize_string(last.arg))
    /\ LET tokens == tokenize_string(last.arg).tokens
       IN  /\ WellFormedPairs(tokens)
           /\ tokens[1] = "Exercise"
           /\ MissingKeys(tokens) = {}
           /\ MistypedKeys(tokens) = {}
           /\ UndeclaredKeys(tokens) # {}
           /\ BadFields("Exercise", GivenKwargs(tokens), last.now) = {}
    /\ IsParseErrorOf(last.out, "create_type_error")

\* the required keys of the kind that the line gives with a number of the other
\* numeric type: an int where a float is expected, a float where an int is
NumberOfOtherType(tokens) ==
    {p \in Range(required_properties[tokens[1]]) :
        /\ Gives(tokens, p[1])
        /\ \/ p[2] = "float" /\ GivenValue(tokens, p[1]).t = "int"
           \/ p[2] = "int" /\ GivenValue(tokens, p[1]).t = "float"}

\* C30: the schema does not coerce between int and float.  A line of a known
\* kind with well-formed pairs that gives a required float property as an
\* integer literal, or a required int property as a float literal, is refused
\* by parse_object and by create_object_from_string with the schema ParseError,
\* which names the property with the type expected and the type given; no
\* record is built.
C30_NoIntFloatCoercion ==
    (pc = "done" /\ last.op \in ParsingOps) =>
        LET tk == tokenize_string(last.arg)
        IN  ( /\ ~IsError(tk)
              /\ WellFormedPairs(tk.tokens)
              /\ tk.tokens[1] \in KnownKinds
              /\ NumberOfOtherType(tk.tokens) # {} )
            => /\ IsParseErrorOf(last.out, "schema")
               /\ \A p \in NumberOfOtherType(tk.tokens) :
                     [name |-> p[1], expected |-> p[2],
                      actual |-> GivenValue(tk.tokens, p[1]).t]
                        \in Range(last.out.type_errors)

\* an Exercise line with weight 60: an int where the schema expects a float
C30_Witness ==
    /\ Called("create_object_from_string")
    /\ ~IsError(tokenize_string(last.arg))
    /\ LET tokens == tokenize_string(last.arg).tokens
       IN  /\ WellFormedPairs(tokens)
           /\ tokens[1] = "Exercise"
           /\ MissingKeys(tokens) = {}
           /\ Gives(tokens, "weight")
           /\ GivenValue(tokens, "weight") = IntVal(60)
    /\ IsParseErrorOf(last.out, "schema")
    /\ last.out.type_errors = << [name |-> "weight", expected |-> "float", actual |-> "int"] >>

====
